---- MODULE Spec2Model ----
(***************************************************************************)
(* A model of the geometry assemblers of FEMlium: the marker argument      *)
(* normalizer (femlium/base_plotter.py), the mesh plotter                  *)
(* (femlium/base_mesh_plotter.py) and the domain plotter                   *)
(* (femlium/domain_plotter.py).                                            *)
(*                                                                         *)
(* numpy arrays are functions over 0..n-1 (python's indexing), python      *)
(* lists are sequences, python dicts are sequences of <<key, value>>       *)
(* pairs in insertion order, python values are tagged records.             *)
(***************************************************************************)
EXTENDS Integers, Sequences, FiniteSets, TLC

VARIABLES
    pc,                     \* position of the running call
    call,                   \* the function called and its arguments
    raised,                 \* the exception the call ended with, or NoError
    ret,                    \* the value a called private function returned
    geo_map,                \* the folium map: the items added to it, in order
    segment_markers,        \* add_domain_to: the markers, zeros when not given
    colors,                 \* add_domain_to: the colour table
    weights,                \* add_domain_to: the weight table
    v,                      \* _convert_domain_to_geojson: the loop index
    previous_marker,        \* _convert_domain_to_geojson
    previous_coordinates,   \* _convert_domain_to_geojson
    multiline_coordinates,  \* _convert_domain_to_geojson
    multiline_properties,   \* _convert_domain_to_geojson
    script,                 \* GeoJson._template.module.__dict__["script"]: the wrappers
                            \* around the macro of the template, the innermost first
    rendered                \* GeoJsonWithArrows.render: the object and its script text

vars == <<pc, call, raised, ret, geo_map, segment_markers, colors, weights, v, previous_marker,
          previous_coordinates, multiline_coordinates, multiline_properties, script, rendered>>

template == <<script, rendered>>

domain_locals == <<segment_markers, colors, weights, v, previous_marker, previous_coordinates,
                   multiline_coordinates, multiline_properties>>

----------------------------------------------------------------------------
(* Bounds of the model. *)

\* the largest number of cells of a mesh
MaxCells == 2
\* the largest marker id
MaxMarker == 2
\* the largest number of vertices of a domain outline
MaxVertices == 5
\* the largest number of levels a caller lists or counts
MaxLevels == 3
\* the largest number of collections that the calls put on one map
MaxCalls == 3
\* the largest number of objects that are rendered one after another
MaxRenders == 4

----------------------------------------------------------------------------
(* Python values. *)

PyNone == [t |-> "NoneType", s |-> "", i |-> 0]
PyStr(x) == [t |-> "str", s |-> x, i |-> 0]
PyInt(x) == [t |-> "int", s |-> "", i |-> x]
PyBool(b) == [t |-> "bool", s |-> "", i |-> IF b THEN 1 ELSE 0]

\* isinstance(value, type): bool is a subclass of int
IsInstance(value, type) ==
    \/ value.t = type
    \/ type = "int" /\ value.t = "bool"

NoError == "none"

\* an optional marker argument: None, a single value, or a dict
ArgNone == [kind |-> "None", value |-> PyNone, items |-> [k \in {} |-> PyNone]]
ArgValue(x) == [kind |-> "value", value |-> x, items |-> [k \in {} |-> PyNone]]
ArgDict(f) == [kind |-> "dict", value |-> PyNone, items |-> f]

SetMax(S) == CHOOSE x \in S : \A y \in S : y <= x
SetMin(S) == CHOOSE x \in S : \A y \in S : x <= y

\* np.arange(0, n)
Arange(n) == [k \in 0 .. n - 1 |-> k]

\* the entries of a numpy array as a list
ToList(a) == [k \in 1 .. Cardinality(DOMAIN a) |-> a[k - 1]]

\* a python list as a numpy array
ToArray(l) == [k \in 0 .. Len(l) - 1 |-> l[k + 1]]

\* the sorted sequence of the elements of a finite set of integers (np.unique)
RECURSIVE SortedSeq(_)
SortedSeq(S) ==
    IF S = {} THEN <<>>
    ELSE LET m == SetMin(S) IN <<m>> \o SortedSeq(S \ {m})

\* np.delete(a, idx): the array without the positions in idx
RECURSIVE DeleteFromList(_, _, _)
DeleteFromList(l, idx, k) ==
    IF k > Len(l) THEN <<>>
    ELSE (IF (k - 1) \in idx THEN <<>> ELSE <<l[k]>>) \o DeleteFromList(l, idx, k + 1)

NpDelete(a, idx) == ToArray(DeleteFromList(ToList(a), idx, 1))

\* np.delete raises IndexError on a position out of bounds
NpDeleteRaises(a, idx) == \E k \in idx : k \notin DOMAIN a

\* the set of values of an array
Values(a) == {a[k] : k \in DOMAIN a}

----------------------------------------------------------------------------
(* python dicts, in insertion order *)

DictKeys(d) == {d[k][1] : k \in 1 .. Len(d)}
DictGet(d, key) == d[CHOOSE k \in 1 .. Len(d) : d[k][1] = key][2]
DictSet(d, key, value) ==
    IF key \in DictKeys(d)
    THEN [k \in 1 .. Len(d) |-> IF d[k][1] = key THEN <<key, value>> ELSE d[k]]
    ELSE Append(d, <<key, value>>)

----------------------------------------------------------------------------
(* BasePlotter._process_optional_argument_on_markers *)

\* output[m] = value, in an array of the default's dtype
NpStore(default, value) ==
    IF default.t = "int" THEN PyInt(value.i) ELSE value

\* ProcessRaises of a lookup argument[m] made without the test "if m in argument"
ProcessRaisesOnMissingKey(argument, default, unique_markers) ==
    IF argument.kind = "dict" /\ \E m \in unique_markers : m \notin DOMAIN argument.items
    THEN "KeyError"
    ELSE NoError

\* ProcessRaises without the assertion on the least marker
ProcessRaisesTypesOnly(argument, default, unique_markers) ==
    LET expected_type == default.t IN
    IF ~(\/ argument.kind = "None"
         \/ argument.kind = "dict"
         \/ argument.kind = "value" /\ IsInstance(argument.value, expected_type))
    THEN "AssertionError"
    ELSE IF /\ argument.kind = "dict"
            /\ \E k \in DOMAIN argument.items :
                   ~IsInstance(argument.items[k], expected_type)
    THEN "AssertionError"
    ELSE NoError

ProcessRaises(argument, default, unique_markers) ==
    LET expected_type == default.t IN
    IF ~(\/ argument.kind = "None"
         \/ argument.kind = "dict"
         \/ argument.kind = "value" /\ IsInstance(argument.value, expected_type))
    THEN "AssertionError"
    ELSE IF /\ argument.kind = "dict"
            /\ \E k \in DOMAIN argument.items :
                   ~IsInstance(argument.items[k], expected_type)
    THEN "AssertionError"
    ELSE IF SetMin(unique_markers) < 0
    THEN "AssertionError"
    ELSE NoError

\* AssignedMarkers of a loop over every index of the output
AssignedMarkersAll(unique_markers) == 0 .. SetMax(unique_markers)

\* the markers the loop "for m in unique_markers" assigns
AssignedMarkers(unique_markers) == unique_markers

ProcessOutput(argument, default, unique_markers) ==
    [m \in 0 .. SetMax(unique_markers) |->
        IF m \in AssignedMarkers(unique_markers)
        THEN IF argument.kind = "None" THEN default
             ELSE IF argument.kind = "value" THEN NpStore(default, argument.value)
             ELSE IF m \in DOMAIN argument.items
                  THEN NpStore(default, argument.items[m])
                  ELSE default
        ELSE default]

ProcessOptionalArgumentOnMarkers(argument, default, unique_markers) ==
    LET e == ProcessRaises(argument, default, unique_markers) IN
    [raised |-> e,
     value |-> IF e = NoError
               THEN ProcessOutput(argument, default, unique_markers)
               ELSE <<>>]

----------------------------------------------------------------------------
(* TransformerWrapper *)

\* the transformation of a pyproj.Transformer (an exchange of the axes and a
\* false easting stand for the reprojection)
PyprojTransform(p) == <<p[2] + 10, p[1]>>

\* self.transformer(*p)
Transform(transformer, p) ==
    IF transformer = "None" THEN p ELSE PyprojTransform(p)

----------------------------------------------------------------------------
(* folium and branca items, geojson objects *)

Feature(type, coordinates, properties) ==
    [geometry |-> [type |-> type, coordinates |-> coordinates],
     properties |-> properties]

FeatureCollection(features) == [type |-> "FeatureCollection", features |-> features]

\* folium.GeoJson(json, style_function=style_function)
GeoJson(json) ==
    [item |-> "GeoJson", data |-> json, colors |-> <<>>, index |-> <<>>,
     vmin |-> 0, vmax |-> 0, caption |-> ""]

\* branca.colormap.LinearColormap(colors, index=values, vmin=values[0],
\* vmax=values[-1], caption=caption)
ColorbarWrapper(colorbar_colors, values, caption) ==
    [item |-> "LinearColormap", data |-> <<>>, colors |-> ToList(colorbar_colors),
     index |-> ToList(values), vmin |-> values[0],
     vmax |-> values[Cardinality(DOMAIN values) - 1], caption |-> caption]

\* an optional array argument
NoArray == [given |-> FALSE, array |-> <<>>]
Array(a) == [given |-> TRUE, array |-> a]

\* array.shape[0]
Shape0(a) == Cardinality(DOMAIN a)

----------------------------------------------------------------------------
(* BaseMeshPlotter._convert_mesh_to_geojson *)

\* LocalEdges with the third edge taken round the cell, from v2 to v0
LocalEdgesCyclic == <<<<0, 1>>, <<1, 2>>, <<2, 0>>>>

\* the local edges of a cell: face f joins the vertices LocalEdges[f + 1]
LocalEdges == <<<<0, 1>>, <<1, 2>>, <<0, 2>>>>

\* the ring of cell c: its three transformed vertices and the first again
CellCoordinates(transformer, vertices, cells, c) ==
    LET coordinates == [k \in 1 .. 3 |-> Transform(transformer, vertices[cells[c][k - 1]])]
    IN Append(coordinates, coordinates[1])

\* np.unique([face_markers[c, f] for f in range(3)])
CellFaceMarkers(face_markers, c) == {face_markers[c][f] : f \in 0 .. 2}

CellKey(cell_markers, face_markers, c) ==
    <<cell_markers[c], Cardinality(CellFaceMarkers(face_markers, c)) = 1>>

\* BoundaryProperties with the weight read at the cell's number, not at its marker
BoundaryPropertiesWeightAtCell(face_markers, face_colors, face_weights, c) ==
    LET cell_face_markers == CellFaceMarkers(face_markers, c) IN
    IF Cardinality(cell_face_markers) = 1
    THEN [stroke |-> PyBool(TRUE),
          color |-> face_colors[SetMin(cell_face_markers)],
          weight |-> PyInt(face_weights[IF c \in DOMAIN face_weights THEN c ELSE 0].i)]
    ELSE [stroke |-> PyBool(FALSE), color |-> PyNone, weight |-> PyNone]

BoundaryProperties(face_markers, face_colors, face_weights, c) ==
    LET cell_face_markers == CellFaceMarkers(face_markers, c) IN
    IF Cardinality(cell_face_markers) = 1
    THEN [stroke |-> PyBool(TRUE),
          color |-> face_colors[SetMin(cell_face_markers)],
          weight |-> PyInt(face_weights[SetMin(cell_face_markers)].i)]
    ELSE [stroke |-> PyBool(FALSE), color |-> PyNone, weight |-> PyNone]

\* InteriorProperties that fills a cell whatever its colour is
InteriorPropertiesAlwaysFilled(cell_markers, cell_colors, c) ==
    [fill |-> PyBool(TRUE),
     fillColor |-> cell_colors[cell_markers[c]],
     fillOpacity |-> PyInt(1)]

\* "if cell_colors[cell_key[0]] != 'none'": the interior of cell c
InteriorProperties(cell_markers, cell_colors, c) ==
    IF cell_colors[cell_markers[c]] # PyStr("none")
    THEN [fill |-> PyBool(TRUE),
          fillColor |-> cell_colors[cell_markers[c]],
          fillOpacity |-> PyInt(1)]
    ELSE [fill |-> PyBool(FALSE), fillColor |-> PyNone, fillOpacity |-> PyNone]

CellProperties(a, c) ==
    LET b == BoundaryProperties(a.face_markers, a.face_colors, a.face_weights, c)
        i == InteriorProperties(a.cell_markers, a.cell_colors, c)
    IN [stroke |-> b.stroke, color |-> b.color, weight |-> b.weight,
        fill |-> i.fill, fillColor |-> i.fillColor, fillOpacity |-> i.fillOpacity]

FaceProperties(a, c, f) ==
    [stroke |-> PyBool(TRUE),
     color |-> a.face_colors[a.face_markers[c][f]],
     weight |-> PyInt(a.face_weights[a.face_markers[c][f]].i)]

\* DictAppend that starts a new list at every call
DictAppendOverwrite(d, key, value) == DictSet(d, key, <<value>>)

\* list.append under a key created on first use
DictAppend(d, key, value) ==
    DictSet(d, key, Append(IF key \in DictKeys(d) THEN DictGet(d, key) ELSE <<>>, value))

\* one pass of the loop over the faces of cell c
MeshFaceStep(st, a, c, f, coordinates) ==
    LET face_key == a.face_markers[c][f]
        pair == LocalEdges[f + 1]
        face_properties == FaceProperties(a, c, f)
        known == face_key \in DictKeys(st.multiline_properties)
    IN [st EXCEPT
          !.multiline_coordinates =
              DictAppend(@, face_key, <<coordinates[pair[1] + 1], coordinates[pair[2] + 1]>>),
          !.multiline_properties =
              IF known THEN @ ELSE DictSet(@, face_key, face_properties),
          !.raised =
              IF known /\ DictGet(st.multiline_properties, face_key) # face_properties
              THEN "AssertionError" ELSE @]

RECURSIVE MeshFaceLoop(_, _, _, _, _)
MeshFaceLoop(st, a, c, f, coordinates) ==
    IF f = 3 \/ st.raised # NoError THEN st
    ELSE MeshFaceLoop(MeshFaceStep(st, a, c, f, coordinates), a, c, f + 1, coordinates)

\* one pass of the loop over the cells
MeshCellStep(st, a, c) ==
    LET coordinates == CellCoordinates(a.transformer, a.vertices, a.cells, c)
        cell_key == CellKey(a.cell_markers, a.face_markers, c)
        cell_properties == CellProperties(a, c)
        known == cell_key \in DictKeys(st.multipolygon_properties)
        stored == [st EXCEPT
            !.multipolygon_coordinates = DictAppend(@, cell_key, <<coordinates>>),
            !.multipolygon_properties =
                IF known THEN @ ELSE DictSet(@, cell_key, cell_properties),
            !.raised =
                IF known /\ DictGet(st.multipolygon_properties, cell_key) # cell_properties
                THEN "AssertionError" ELSE @]
    IN IF stored.raised # NoError \/ cell_key[2] THEN stored
       ELSE MeshFaceLoop(stored, a, c, 0, coordinates)

RECURSIVE MeshCellLoop(_, _, _)
MeshCellLoop(st, a, c) ==
    IF c = Shape0(a.cells) \/ st.raised # NoError THEN st
    ELSE MeshCellLoop(MeshCellStep(st, a, c), a, c + 1)

\* the features of a dict of coordinates and a dict of properties, in key order
DictFeatures(type, coordinates, properties) ==
    [k \in 1 .. Len(coordinates) |->
        Feature(type, coordinates[k][2], DictGet(properties, coordinates[k][1]))]

ConvertMeshToGeojson(a) ==
    LET st == MeshCellLoop([multipolygon_coordinates |-> <<>>,
                            multipolygon_properties |-> <<>>,
                            multiline_coordinates |-> <<>>,
                            multiline_properties |-> <<>>,
                            raised |-> NoError], a, 0)
    IN [raised |-> st.raised,
        value |-> IF st.raised # NoError THEN FeatureCollection(<<>>)
                  ELSE FeatureCollection(
                      DictFeatures("MultiPolygon", st.multipolygon_coordinates,
                                   st.multipolygon_properties)
                      \o DictFeatures("MultiLineString", st.multiline_coordinates,
                                      st.multiline_properties))]

----------------------------------------------------------------------------
(* BaseMeshPlotter.add_mesh_to *)

\* the end of a call that raises: the map is as the call has left it
\* Raise of a call that fails after its collection is on the map
RaiseWithCollection(map, exception) ==
    [raised |-> exception, geo_map |-> Append(map, GeoJson(FeatureCollection(<<>>)))]

\* a call that ends in an exception, with the map as it is then
Raise(map, exception) == [raised |-> exception, geo_map |-> map]

\* DefaultCellMarkers that numbers the cells
DefaultCellMarkersByCell(cells) == [c \in DOMAIN cells |-> c]

\* np.zeros((cells.shape[0], )) when cell_markers is None
DefaultCellMarkers(cells) == [c \in DOMAIN cells |-> 0]

\* np.zeros(cells.shape) when face_markers is None
DefaultFaceMarkers(cells) == [c \in DOMAIN cells |-> [f \in 0 .. 2 |-> 0]]

\* face_markers.shape == cells.shape
SameShape(face_markers, cells) ==
    /\ Shape0(face_markers) = Shape0(cells)
    /\ \A c \in DOMAIN face_markers : Shape0(face_markers[c]) = 3

\* np.unique(face_markers)
UniqueFaceMarkers(face_markers) ==
    UNION {Values(face_markers[c]) : c \in DOMAIN face_markers}

\* CellColorsWhereNone of a legend that keeps the cells left without colour
CellColorsWhereNoneNowhere(cell_colors) == {}

\* the positions of the cell colour table left out of the legend as "none"
CellColorsWhereNone(cell_colors) ==
    {k \in DOMAIN cell_colors : cell_colors[k] = PyStr("none")}

\* NotInFigure of a legend over every marker id up to the maximum
NotInFigureNothing(values, unique_markers) == {}

\* np.setdiff1d(values, unique_markers), used as the positions np.delete drops
NotInFigure(values, unique_markers) == Values(values) \ unique_markers

\* the "Cell markers" legend: the exception raised, whether it is shown, the item
CellLegend(cell_colors, unique_cell_markers) ==
    LET cell_colors_where_none == CellColorsWhereNone(cell_colors)
        cell_colors_not_none == NpDelete(cell_colors, cell_colors_where_none)
        cell_colors_values == Arange(SetMax(unique_cell_markers) + 1)
        cell_colors_values_not_none == NpDelete(cell_colors_values, cell_colors_where_none)
        not_in_figure == NotInFigure(cell_colors_values_not_none, unique_cell_markers)
        cell_colors_in_figure == NpDelete(cell_colors_not_none, not_in_figure)
        cell_colors_values_in_figure == NpDelete(cell_colors_values_not_none, not_in_figure)
    IN IF Shape0(cell_colors_not_none) # Shape0(cell_colors_values_not_none)
       THEN [raised |-> "AssertionError", show |-> FALSE, item |-> <<>>]
       ELSE IF NpDeleteRaises(cell_colors_not_none, not_in_figure)
       THEN [raised |-> "IndexError", show |-> FALSE, item |-> <<>>]
       ELSE IF Cardinality(Values(cell_colors_in_figure)) > 1
       THEN [raised |-> NoError, show |-> TRUE,
             item |-> ColorbarWrapper(cell_colors_in_figure,
                                      cell_colors_values_in_figure, "Cell markers")]
       ELSE [raised |-> NoError, show |-> FALSE, item |-> <<>>]

\* the "Face markers" legend
FaceLegend(face_colors, unique_face_markers) ==
    LET face_colors_values == Arange(SetMax(unique_face_markers) + 1)
        not_in_figure == NotInFigure(face_colors_values, unique_face_markers)
        face_colors_in_figure == NpDelete(face_colors, not_in_figure)
        face_colors_values_in_figure == NpDelete(face_colors_values, not_in_figure)
    IN IF Shape0(face_colors) # Shape0(face_colors_values)
       THEN [raised |-> "AssertionError", show |-> FALSE, item |-> <<>>]
       ELSE IF Cardinality(Values(face_colors_in_figure)) > 1
       THEN [raised |-> NoError, show |-> TRUE,
             item |-> ColorbarWrapper(face_colors_in_figure,
                                      face_colors_values_in_figure, "Face markers")]
       ELSE [raised |-> NoError, show |-> FALSE, item |-> <<>>]

\* WithLegend of a legend that is added whenever it has a colour
WithLegendOfOneColor(map, legend) ==
    IF legend.show THEN Append(map, legend.item)
    ELSE Append(map, [item |-> "LinearColormap", data |-> <<>>, colors |-> <<>>,
                      index |-> <<>>, vmin |-> 0, vmax |-> 0, caption |-> ""])

\* WithLegend of a legend put before the items of the map
WithLegendFirst(map, legend) == IF legend.show THEN <<legend.item>> \o map ELSE map

\* the map with the legend added, when it is shown
WithLegend(map, legend) == IF legend.show THEN Append(map, legend.item) ELSE map

\* the part of add_mesh_to after the style tables are built
AddMeshWithTables(map, a, cell_markers, face_markers, cell_colors, face_colors, face_weights) ==
    LET json == ConvertMeshToGeojson(
                    [transformer |-> a.transformer, vertices |-> a.vertices,
                     cells |-> a.cells, cell_markers |-> cell_markers,
                     face_markers |-> face_markers, cell_colors |-> cell_colors,
                     face_colors |-> face_colors, face_weights |-> face_weights])
        map1 == Append(map, GeoJson(json.value))
        cell_legend == CellLegend(cell_colors, Values(cell_markers))
        map2 == WithLegend(map1, cell_legend)
        face_legend == FaceLegend(face_colors, UniqueFaceMarkers(face_markers))
    IN IF json.raised # NoError THEN Raise(map, json.raised)
       ELSE IF cell_legend.raised # NoError THEN Raise(map1, cell_legend.raised)
       ELSE IF face_legend.raised # NoError THEN Raise(map2, face_legend.raised)
       ELSE [raised |-> NoError, geo_map |-> WithLegend(map2, face_legend)]

AddMeshTo(map, a) ==
    LET cell_markers == IF a.cell_markers.given THEN a.cell_markers.array
                        ELSE DefaultCellMarkers(a.cells)
        face_markers == IF a.face_markers.given THEN a.face_markers.array
                        ELSE DefaultFaceMarkers(a.cells)
    IN IF Shape0(cell_markers) # Shape0(a.cells) THEN Raise(map, "AssertionError")
       ELSE IF ~SameShape(face_markers, a.cells) THEN Raise(map, "AssertionError")
       ELSE LET unique_cell_markers == Values(cell_markers)
                unique_face_markers == UniqueFaceMarkers(face_markers)
                cell_colors == ProcessOptionalArgumentOnMarkers(
                                   a.cell_colors, PyStr("none"), unique_cell_markers)
                face_colors == ProcessOptionalArgumentOnMarkers(
                                   a.face_colors, PyStr("black"), unique_face_markers)
                face_weights == ProcessOptionalArgumentOnMarkers(
                                    a.face_weights, PyInt(1), unique_face_markers)
            IN IF cell_colors.raised # NoError THEN Raise(map, cell_colors.raised)
               ELSE IF face_colors.raised # NoError THEN Raise(map, face_colors.raised)
               ELSE IF face_weights.raised # NoError THEN Raise(map, face_weights.raised)
               ELSE AddMeshWithTables(map, a, cell_markers, face_markers,
                                      cell_colors.value, face_colors.value,
                                      face_weights.value)

----------------------------------------------------------------------------
(* DomainPlotter.add_domain_to and DomainPlotter._convert_domain_to_geojson *)

\* finalize_placeholder
FinalizePlaceholder == PyStr("finalize")

\* np.zeros((vertices.shape[0] - 1, )) when segment_markers is None
DefaultSegmentMarkers(vertices) == [k \in 0 .. Shape0(vertices) - 2 |-> 0]

CurrentMarkerOfFirst(vertices, markers, k) ==
    IF k < Shape0(vertices) - 1 THEN PyInt(markers[0]) ELSE FinalizePlaceholder

\* the marker of the pass v of the loop: that of segment v, the placeholder at the end
CurrentMarker(vertices, markers, k) ==
    IF k < Shape0(vertices) - 1 THEN PyInt(markers[k]) ELSE FinalizePlaceholder

FlushOnFinalize(current, previous) == current = FinalizePlaceholder

\* "if current_marker != previous_marker": the previous line is stored
Flush(current, previous) == current # previous

ResetCoordinatesEmpty(coordinates) == <<>>

\* "previous_coordinates = np.array(previous_coordinates[-1, :])"
ResetCoordinates(coordinates) == <<coordinates[Len(coordinates)]>>

\* the properties of the line of marker m
PreviousProperties(color_table, weight_table, m) ==
    [color |-> color_table[m.i], weight |-> PyInt(weight_table[m.i].i)]

\* SegmentLegend of a legend shown whatever the number of colours
SegmentLegendAlways(color_table, unique_markers) ==
    LET colors_values == Arange(SetMax(unique_markers) + 1)
        not_in_figure == NotInFigure(colors_values, unique_markers)
    IN [raised |-> NoError, show |-> TRUE,
        item |-> ColorbarWrapper(NpDelete(color_table, not_in_figure),
                                 NpDelete(colors_values, not_in_figure),
                                 "Segment markers")]

\* the "Segment markers" legend
SegmentLegend(color_table, unique_markers) ==
    LET colors_values == Arange(SetMax(unique_markers) + 1)
        not_in_figure == NotInFigure(colors_values, unique_markers)
        colors_in_figure == NpDelete(color_table, not_in_figure)
        colors_values_in_figure == NpDelete(colors_values, not_in_figure)
    IN IF Shape0(color_table) # Shape0(colors_values)
       THEN [raised |-> "AssertionError", show |-> FALSE, item |-> <<>>]
       ELSE IF Cardinality(Values(colors_in_figure)) > 1
       THEN [raised |-> NoError, show |-> TRUE,
             item |-> ColorbarWrapper(colors_in_figure, colors_values_in_figure,
                                      "Segment markers")]
       ELSE [raised |-> NoError, show |-> FALSE, item |-> <<>>]

----------------------------------------------------------------------------
(* BaseSolutionPlotter: the levels and their colours *)

\* "levels = 10"
DefaultLevels == 10

\* a levels argument: None, an int, a list, an array, or a value of another type
LevelsNone == [kind |-> "None", n |-> 0, values |-> <<>>]
LevelsInt(n) == [kind |-> "int", n |-> n, values |-> <<>>]
LevelsList(l) == [kind |-> "list", n |-> 0, values |-> l]
LevelsArray(a) == [kind |-> "ndarray", n |-> 0, values |-> a]
LevelsOfType(type) == [kind |-> type, n |-> 0, values |-> <<>>]

\* np.linspace(start, stop, num); the fields and counts used keep the division exact
Linspace(start, stop, num) ==
    [i \in 0 .. num - 1 |->
        IF num = 1 THEN start ELSE start + (i * (stop - start)) \div (num - 1)]

\* the levels as an array, or the exception raised
ProcessLevels(levels, field) ==
    LET given == IF levels.kind = "None" THEN LevelsInt(DefaultLevels) ELSE levels IN
    IF given.kind \notin {"int", "list", "ndarray"}
    THEN [raised |-> "AssertionError", value |-> <<>>]
    ELSE IF given.kind = "int"
    THEN IF given.n < 0 THEN [raised |-> "ValueError", value |-> <<>>]
         ELSE [raised |-> NoError,
               value |-> Linspace(SetMin(Values(field)), SetMax(Values(field)), given.n)]
    ELSE IF given.kind = "list"
    THEN [raised |-> NoError, value |-> ToArray(given.values)]
    ELSE [raised |-> NoError, value |-> given.values]

\* a matplotlib colour map of N colours
Colormap(name, N) == [t |-> "Colormap", s |-> name, i |-> N]

\* "cmap = 'jet'" when None, plt.get_cmap(cmap, lut=...) when a str
GetCmap(cmap, lut) ==
    IF cmap = PyNone THEN Colormap("jet", lut)
    ELSE IF cmap.t = "str" THEN Colormap(cmap.s, lut)
    ELSE cmap

\* cmap(cnorm(lev)), as the index of the colour in the map: cnorm is 0 when
\* vmin = vmax, values below vmin take the first colour, values from vmax on the last
CmapIndex(cmap, vmin, vmax, lev) ==
    IF vmin = vmax \/ lev < vmin THEN 0
    ELSE IF lev >= vmax THEN cmap.i - 1
    ELSE ((lev - vmin) * cmap.i) \div (vmax - vmin)

\* mpl.colors.to_hex(cmap(cnorm(lev))): the hex string of a colour of the map
ToHex(cmap, vmin, vmax, lev) == [t |-> "str", s |-> cmap.s, i |-> CmapIndex(cmap, vmin, vmax, lev)]

\* cnorm(lev) raises when vmin > vmax
NormalizeRaises(vmin, vmax) == IF vmin > vmax THEN "ValueError" ELSE NoError

\* "colors = [mpl.colors.to_hex(cmap(cnorm(lev))) for lev in levels]"
LevelColors(cmap, levels) ==
    LET n == Shape0(levels) IN
    [k \in 0 .. n - 1 |-> ToHex(cmap, levels[0], levels[n - 1], levels[k])]

----------------------------------------------------------------------------
(* BaseSolutionPlotter._convert_scalar_field_to_geojson *)

\* the points of the curve j that the contour routine returns for the level or
\* band lev: count points, told apart by lev and j
CurvePoints(lev, j, count) == [p \in 1 .. count |-> <<10 * lev + j, p>>]

\* [self.transformer(*curve[p, :]) for p in range(curve.shape[0])]
TransformCurve(transformer, curve) ==
    [p \in 1 .. Len(curve) |-> Transform(transformer, curve[p])]

\* the result of countour_generator.create_contour(levels[lev]): the answer
\* result of the routine, a list of curves, a tuple holding it, or something else
CreateContour(result, lev) ==
    [form |-> result.form,
     curves |-> [j \in 1 .. Len(result.sizes) |-> CurvePoints(lev, j, result.sizes[j])]]

\* KeepCurve without the test: every curve that has a point is kept
KeepCurveAny(curve) == Len(curve) > 0

\* "if curve.shape[0] > 1": a curve of one point is left out
KeepCurve(curve) == Len(curve) > 1

RECURSIVE ContourCurveLoop(_, _, _, _, _)
\* "for curve in curves", from the curve j on
ContourCurveLoop(st, a, lev, curves, j) ==
    IF j > Len(curves) THEN st
    ELSE IF ~KeepCurve(curves[j]) THEN ContourCurveLoop(st, a, lev, curves, j + 1)
    ELSE LET properties == [color |-> a.colors[lev], weight |-> PyInt(2)]
             known == lev \in DictKeys(st.properties)
         IN IF known /\ DictGet(st.properties, lev) # properties
            THEN [st EXCEPT !.raised = "AssertionError"]
            ELSE ContourCurveLoop(
                     [st EXCEPT
                        !.coordinates =
                            DictAppend(@, lev, TransformCurve(a.transformer, curves[j])),
                        !.properties = IF known THEN @ ELSE DictSet(@, lev, properties)],
                     a, lev, curves, j + 1)

RECURSIVE ContourLevelLoop(_, _, _)
\* "for lev in range(levels.shape[0])", from the level lev on
ContourLevelLoop(st, a, lev) ==
    IF lev >= Shape0(a.levels) \/ st.raised # NoError THEN st
    ELSE LET curves == CreateContour(a.contour[lev % Shape0(a.contour)], lev)
         IN IF curves.form \notin {"list", "tuple"}
            THEN [st EXCEPT !.raised = "AssertionError"]
            ELSE ContourLevelLoop(ContourCurveLoop(st, a, lev, curves.curves, 1), a, lev + 1)

\* the result of countour_generator.create_filled_contour(lower, upper): the
\* points of the rings in one array, and the codes, 1 at the first point of a
\* ring and 2 at the others
RECURSIVE RingPoints(_, _, _)
RingPoints(sizes, lev, j) ==
    IF j > Len(sizes) THEN <<>>
    ELSE CurvePoints(lev, j, sizes[j]) \o RingPoints(sizes, lev, j + 1)
RECURSIVE RingCodes(_, _)
RingCodes(sizes, j) ==
    IF j > Len(sizes) THEN <<>>
    ELSE [p \in 1 .. sizes[j] |-> IF p = 1 THEN 1 ELSE 2] \o RingCodes(sizes, j + 1)
CreateFilledContour(result, lev) ==
    [form |-> result.form,
     points |-> RingPoints(result.sizes, lev, 1),
     codes |-> RingCodes(result.sizes, 1)]

\* create_filled_contour raises unless lower < upper
CreateFilledContourRaises(lower, upper) ==
    IF lower >= upper THEN "ValueError" ELSE NoError

\* np.where(codes == 1)[0][1:]: the positions of the codes 1 but the first of them
SplitPositions(codes) ==
    LET ones == SortedSeq({p \in 1 .. Len(codes) : codes[p] = 1})
    IN IF ones = <<>> THEN <<>> ELSE Tail(ones)

\* np.split(points, positions): the pieces between the positions
NpSplit(points, positions) ==
    [k \in 1 .. Len(positions) + 1 |->
        SubSeq(points,
               IF k = 1 THEN 1 ELSE positions[k - 1],
               IF k > Len(positions) THEN Len(points) ELSE positions[k] - 1)]

\* CloseRing of a ring left open
CloseRingOpen(ring) == ring

\* np.vstack((ring, ring[0, :])): the ring closed by its first point
CloseRing(ring) == Append(ring, ring[1])

\* "if curve.shape[0] > 2": a closed ring of two points is left out
KeepRing(curve) == Len(curve) > 2

RECURSIVE FilledRingLoop(_, _, _, _, _)
\* "for curve in filled_contour_split", from the ring j on
FilledRingLoop(st, a, lev, rings, j) ==
    IF j > Len(rings) THEN st
    ELSE IF ~KeepRing(rings[j]) THEN FilledRingLoop(st, a, lev, rings, j + 1)
    ELSE LET properties == [fillColor |-> a.colors[lev], fillOpacity |-> PyInt(1)]
             known == lev \in DictKeys(st.properties)
         IN IF known /\ DictGet(st.properties, lev) # properties
            THEN [st EXCEPT !.raised = "AssertionError"]
            ELSE FilledRingLoop(
                     [st EXCEPT
                        !.coordinates =
                            DictAppend(@, lev, <<TransformCurve(a.transformer, rings[j])>>),
                        !.properties = IF known THEN @ ELSE DictSet(@, lev, properties)],
                     a, lev, rings, j + 1)

RECURSIVE FilledLevelLoop(_, _, _)
\* "for lev in range(levels.shape[0] - 1)", from the band lev on
FilledLevelLoop(st, a, lev) ==
    IF lev >= Shape0(a.levels) - 1 \/ st.raised # NoError THEN st
    ELSE IF CreateFilledContourRaises(a.levels[lev], a.levels[lev + 1]) # NoError
    THEN [st EXCEPT !.raised = CreateFilledContourRaises(a.levels[lev], a.levels[lev + 1])]
    ELSE LET filled_contour == CreateFilledContour(a.filled[lev % Shape0(a.filled)], lev)
             filled_contour_split ==
                 NpSplit(filled_contour.points, SplitPositions(filled_contour.codes))
         IN IF filled_contour.form \notin {"arrays", "lists"}
            THEN [st EXCEPT !.raised = "AssertionError"]
            ELSE IF \E i \in 1 .. Len(filled_contour_split) : filled_contour_split[i] = <<>>
            THEN [st EXCEPT !.raised = "IndexError"]
            ELSE FilledLevelLoop(
                     FilledRingLoop(st, a, lev,
                         [i \in 1 .. Len(filled_contour_split) |->
                             CloseRing(filled_contour_split[i])], 1),
                     a, lev + 1)

\* _convert_scalar_field_to_geojson(vertices, cells, scalar_field, mode, levels, colors)
ConvertScalarFieldToGeojson(a) ==
    LET start == [coordinates |-> <<>>, properties |-> <<>>, raised |-> NoError]
        st == IF a.mode = "contour" THEN ContourLevelLoop(start, a, 0)
              ELSE FilledLevelLoop(start, a, 0)
        type == IF a.mode = "contour" THEN "MultiLineString" ELSE "MultiPolygon"
    IN IF a.mode \notin {"contour", "contourf"}
       THEN [raised |-> "ValueError", value |-> FeatureCollection(<<>>)]
       ELSE [raised |-> st.raised,
             value |-> IF st.raised # NoError THEN FeatureCollection(<<>>)
                       ELSE FeatureCollection(
                                DictFeatures(type, st.coordinates, st.properties))]

----------------------------------------------------------------------------
(* BaseSolutionPlotter.add_scalar_field_to *)

\* ModeOrDefault with iso-lines as the default
ModeOrDefaultContour(mode) == IF mode = PyNone THEN PyStr("contour") ELSE mode

\* "if mode is None: mode = 'contourf'"
ModeOrDefault(mode) == IF mode = PyNone THEN PyStr("contourf") ELSE mode

\* AddScalarFieldWithLevels with the legend left out when no level or band has
\* produced a geometry
AddScalarFieldWithLevelsLegendIfDrawn(map, a, mode, levels) ==
    LET n == Shape0(levels)
        cmap == GetCmap(a.cmap, n)
        name == IF a.name = PyNone THEN PyStr("Scalar field") ELSE a.name
        level_colors == LevelColors(cmap, levels)
        json == ConvertScalarFieldToGeojson(
                    [transformer |-> a.transformer, mode |-> mode.s, levels |-> levels,
                     colors |-> level_colors, contour |-> a.contour, filled |-> a.filled])
        map1 == Append(map, GeoJson(json.value))
    IN IF n = 0 THEN Raise(map, "IndexError")
       ELSE IF NormalizeRaises(levels[0], levels[n - 1]) # NoError
       THEN Raise(map, NormalizeRaises(levels[0], levels[n - 1]))
       ELSE IF json.raised # NoError THEN Raise(map, json.raised)
       ELSE [raised |-> NoError,
             geo_map |-> IF json.value.features = <<>> THEN map1
                         ELSE Append(map1, ColorbarWrapper(level_colors, levels, name.s))]

\* the part of add_scalar_field_to after the levels are arrays
AddScalarFieldWithLevels(map, a, mode, levels) ==
    LET n == Shape0(levels)
        cmap == GetCmap(a.cmap, n)
        name == IF a.name = PyNone THEN PyStr("Scalar field") ELSE a.name
        level_colors == LevelColors(cmap, levels)
        json == ConvertScalarFieldToGeojson(
                    [transformer |-> a.transformer, mode |-> mode.s, levels |-> levels,
                     colors |-> level_colors, contour |-> a.contour, filled |-> a.filled])
        map1 == Append(map, GeoJson(json.value))
    IN IF n = 0 THEN Raise(map, "IndexError")
       ELSE IF NormalizeRaises(levels[0], levels[n - 1]) # NoError
       THEN Raise(map, NormalizeRaises(levels[0], levels[n - 1]))
       ELSE IF json.raised # NoError THEN Raise(map, json.raised)
       ELSE [raised |-> NoError,
             geo_map |-> Append(map1, ColorbarWrapper(level_colors, levels, name.s))]

AddScalarFieldTo(map, a) ==
    LET mode == ModeOrDefault(a.mode)
        levels == ProcessLevels(a.levels, a.scalar_field)
    IN IF mode \notin {PyStr("contourf"), PyStr("contour")} THEN Raise(map, "AssertionError")
       ELSE IF levels.raised # NoError THEN Raise(map, levels.raised)
       ELSE AddScalarFieldWithLevels(map, a, mode, levels.value)

----------------------------------------------------------------------------
(* BaseSolutionPlotter.add_vector_field_to and _convert_vector_field_to_geojson *)

\* np.linalg.norm of one row; the vectors used have a whole norm
Norm(vector) == CHOOSE r \in 0 .. vector[1] + vector[2] :
                    r * r = vector[1] * vector[1] + vector[2] * vector[2]

\* np.linalg.norm(vector_field, axis=1)
VectorFieldMagnitude(vector_field) == [k \in DOMAIN vector_field |-> Norm(vector_field[k])]

\* GeoJsonWithArrows(json, style_function=style_function, frequency="endonly")
GeoJsonWithArrows(json) ==
    [item |-> "GeoJsonWithArrows", data |-> json, colors |-> <<>>, index |-> <<>>,
     vmin |-> 0, vmax |-> 0, caption |-> ""]

\* ArrowHead without the scale: vertex + vector
ArrowHeadUnscaled(vertex, scale, vector) ==
    <<vertex[1] + vector[1], vertex[2] + vector[2]>>

\* vertex + scale * vector
ArrowHead(vertex, scale, vector) ==
    <<vertex[1] + scale.i * vector[1], vertex[2] + scale.i * vector[2]>>

\* "scale * vector_field[v, :]" raises when scale is None
ScaleRaises(scale) == IF scale = PyNone THEN "TypeError" ELSE NoError

RECURSIVE QuiverLoop(_, _, _)
\* "for v in range(vertices.shape[0])", from the vertex k on
QuiverLoop(st, a, k) ==
    IF k >= Shape0(a.vertices) \/ st.raised # NoError THEN st
    ELSE IF ScaleRaises(a.scale) # NoError THEN [st EXCEPT !.raised = ScaleRaises(a.scale)]
    ELSE IF NormalizeRaises(a.vmin, a.vmax) # NoError
    THEN [st EXCEPT !.raised = NormalizeRaises(a.vmin, a.vmax)]
    ELSE LET coordinates ==
                 <<Transform(a.transformer, a.vertices[k]),
                   Transform(a.transformer,
                             ArrowHead(a.vertices[k], a.scale, a.vector_field[k]))>>
             color == ToHex(a.cmap, a.vmin, a.vmax, a.vector_field_magnitude[k])
             properties == [color |-> color, weight |-> PyInt(2)]
             known == color \in DictKeys(st.properties)
         IN IF known /\ DictGet(st.properties, color) # properties
            THEN [st EXCEPT !.raised = "AssertionError"]
            ELSE QuiverLoop(
                     [st EXCEPT
                        !.coordinates = DictAppend(@, color, coordinates),
                        !.properties = IF known THEN @ ELSE DictSet(@, color, properties)],
                     a, k + 1)

\* _convert_vector_field_to_geojson(vertices, vector_field_magnitude, vector_field, scale, cmap)
ConvertVectorFieldToGeojson(a) ==
    LET st == QuiverLoop([coordinates |-> <<>>, properties |-> <<>>, raised |-> NoError], a, 0)
    IN [raised |-> st.raised,
        value |-> IF st.raised # NoError THEN FeatureCollection(<<>>)
                  ELSE FeatureCollection(
                           DictFeatures("MultiLineString", st.coordinates, st.properties))]

\* ScalarCallOfVector that hands on the name as the caller gave it
ScalarCallOfVectorSameName(a, vector_field_magnitude, mode, levels, cmap, name) ==
    [fn |-> "add_scalar_field_to", transformer |-> a.transformer,
     vertices |-> a.vertices, cells |-> a.cells,
     scalar_field |-> vector_field_magnitude, mode |-> mode,
     levels |-> LevelsArray(levels), cmap |-> cmap, name |-> a.name,
     contour |-> a.contour, filled |-> a.filled]

\* the scalar call that add_vector_field_to makes in the modes contourf and contour
ScalarCallOfVector(a, vector_field_magnitude, mode, levels, cmap, name) ==
    [fn |-> "add_scalar_field_to", transformer |-> a.transformer,
     vertices |-> a.vertices, cells |-> a.cells,
     scalar_field |-> vector_field_magnitude, mode |-> mode,
     levels |-> LevelsArray(levels), cmap |-> cmap, name |-> name,
     contour |-> a.contour, filled |-> a.filled]

\* the part of add_vector_field_to after the levels are arrays
AddVectorFieldWithLevels(map, a, mode, vector_field_magnitude, levels) ==
    LET n == Shape0(levels)
        cmap == GetCmap(a.cmap, n)
        name == IF a.name = PyNone THEN PyStr("Vector field") ELSE a.name
        json == ConvertVectorFieldToGeojson(
                    [transformer |-> a.transformer, vertices |-> a.vertices,
                     vector_field_magnitude |-> vector_field_magnitude,
                     vector_field |-> a.vector_field, scale |-> a.scale,
                     cmap |-> cmap, vmin |-> levels[0], vmax |-> levels[n - 1]])
        map1 == Append(map, GeoJsonWithArrows(json.value))
    IN IF n = 0 THEN Raise(map, "IndexError")
       ELSE IF mode \in {PyStr("contourf"), PyStr("contour")}
       THEN AddScalarFieldTo(map, ScalarCallOfVector(a, vector_field_magnitude, mode,
                                                     levels, cmap, name))
       ELSE IF json.raised # NoError THEN Raise(map, json.raised)
       ELSE IF NormalizeRaises(levels[0], levels[n - 1]) # NoError
       THEN Raise(map1, NormalizeRaises(levels[0], levels[n - 1]))
       ELSE [raised |-> NoError,
             geo_map |-> Append(map1, ColorbarWrapper(LevelColors(cmap, levels),
                                                      levels, name.s))]

AddVectorFieldTo(map, a) ==
    LET mode == ModeOrDefault(a.mode)
        vector_field_magnitude == VectorFieldMagnitude(a.vector_field)
        levels == ProcessLevels(a.levels, vector_field_magnitude)
    IN IF mode \notin {PyStr("contourf"), PyStr("contour"), PyStr("quiver")}
       THEN Raise(map, "AssertionError")
       ELSE IF levels.raised # NoError THEN Raise(map, levels.raised)
       ELSE AddVectorFieldWithLevels(map, a, mode, vector_field_magnitude, levels.value)

----------------------------------------------------------------------------
(* The arguments the calls are made with. *)

Markers == 0 .. MaxMarker

\* a fan of n triangles around vertex 0, over the vertices (k, k * k)
MeshVertices(n) == [k \in 0 .. n + 1 |-> <<k, k * k>>]
MeshCells(n) == [c \in 0 .. n - 1 |-> [j \in 0 .. 2 |-> IF j = 0 THEN 0 ELSE c + j]]

\* the colour and the weight a caller's dict gives marker m, when it has the key
PaletteColor(m) == PyStr(IF m % 2 = 0 THEN "red" ELSE "blue")
PaletteWeight(m) == PyInt(2 + (m % 2))

\* the dicts over some of the markers
ColorDicts == {ArgDict([m \in S |-> PaletteColor(m)]) : S \in SUBSET Markers}
WeightDicts == {ArgDict([m \in S |-> PaletteWeight(m)]) : S \in SUBSET Markers}

ColorArguments == {ArgNone, ArgValue(PyStr("red"))} \cup ColorDicts
WeightArguments == {ArgNone, ArgValue(PyInt(3))} \cup WeightDicts

\* cell markers: every array over the set S of markers
CellMarkerArrays(n, S) == {NoArray} \cup {Array(a) : a \in [0 .. n - 1 -> S]}

\* face markers: one cell has any row, the others are uniform (with a marker of
\* the set others) or have the same row (-1 in others)
FaceRows == [0 .. 2 -> Markers]
FaceMarkerArrays(n, others) ==
    {NoArray} \cup
    {Array([c \in 0 .. n - 1 |->
              IF c = special \/ other = -1 THEN row ELSE [f \in 0 .. 2 |-> other]]) :
        special \in 0 .. n - 1, row \in FaceRows, other \in others}

MeshCall(n, transformer, cell_markers, face_markers, cell_colors, face_colors, face_weights) ==
    [fn |-> "add_mesh_to", transformer |-> transformer,
     vertices |-> MeshVertices(n), cells |-> MeshCells(n),
     cell_markers |-> cell_markers, face_markers |-> face_markers,
     cell_colors |-> cell_colors, face_colors |-> face_colors,
     face_weights |-> face_weights]

\* the plotter's transformer and the styles <<cell_colors, face_colors,
\* face_weights>> of the calls on meshes with marked cells and faces
GeometrySettings ==
    {<<"None", ArgNone, ArgNone, ArgNone>>,
     <<"pyproj",
       ArgDict([m \in Markers |-> PaletteColor(m)]),
       ArgDict([m \in Markers |-> PaletteColor(m + 1)]),
       ArgDict([m \in Markers |-> PaletteWeight(m)])>>,
     <<"None",
       ArgValue(PyStr("red")),
       ArgDict([m \in Markers \ {0} |-> PaletteColor(m)]),
       ArgDict([m \in Markers \ {1} |-> PaletteWeight(m)])>>}

\* the styles <<face_colors, face_weights>> of the calls on meshes with marked
\* faces: every colour argument and every weight argument
FaceStyles ==
    (ColorArguments \X {ArgNone, ArgDict([m \in Markers \ {1} |-> PaletteWeight(m)])})
    \cup ({ArgNone, ArgDict([m \in Markers \ {0} |-> PaletteColor(m)])} \X WeightArguments)

\* a closed curve of K vertices: the last vertex is the first again
DomainVertices(K) == [k \in 0 .. K - 1 |-> IF k = K - 1 THEN <<0, 0>> ELSE <<k, k * k>>]

SegmentMarkerArrays(K) == {NoArray} \cup {Array(a) : a \in [0 .. K - 2 -> Markers]}

DomainCall(K, transformer, markers, color_argument, weight_argument) ==
    [fn |-> "add_domain_to", transformer |-> transformer,
     vertices |-> DomainVertices(K), segment_markers |-> markers,
     colors |-> color_argument, weights |-> weight_argument]

\* the mesh of the fields: one cell, three vertices
FieldVertices == MeshVertices(1)
FieldCells == MeshCells(1)

\* scalar fields: constant, and with the values 0, 18 and 36
ScalarFields ==
    {[k \in DOMAIN FieldVertices |-> 0],
     [k \in DOMAIN FieldVertices |-> 36 * (k % 2)],
     [k \in DOMAIN FieldVertices |-> 18 * k]}

\* the vectors of the vector fields, of norms 0, 5, 18 and 36
Vectors == {<<0, 0>>, <<3, 4>>, <<0, 18>>, <<36, 0>>}
VectorFields == [DOMAIN FieldVertices -> Vectors]
\* vector fields whose norms have a range that the counts of levels divide
EvenVectorFields ==
    {[k \in DOMAIN FieldVertices |-> <<0, 0>>],
     [k \in DOMAIN FieldVertices |-> IF k = 0 THEN <<0, 0>> ELSE <<0, 18 * k>>],
     [k \in DOMAIN FieldVertices |-> IF k = 1 THEN <<36, 0>> ELSE <<0, 0>>]}

\* the levels 0, 18, 36, ... in a list of n
RisingLevels(n) == LevelsList([k \in 1 .. n |-> 18 * (k - 1)])
LevelValues == {0, 18, 36}
LevelLists == UNION {{LevelsList(l) : l \in [1 .. n -> LevelValues]} : n \in 1 .. MaxLevels}

\* every levels argument: the supported ones and values of other types
LevelsArguments ==
    {LevelsNone, LevelsList(<<>>), LevelsArray([k \in 0 .. 1 |-> 36 * k]),
     LevelsOfType("float"), LevelsOfType("str")}
    \cup {LevelsInt(n) : n \in -1 .. MaxLevels + 1}
    \cup LevelLists

\* the answers of the contour routine for a level: a list of curves of the
\* sizes given, the same in a tuple, or an answer of another shape
ContourResults ==
    {[form |-> "list", sizes |-> z] : z \in {<<>>, <<1>>, <<2>>, <<1, 3>>, <<2, 2>>}}
    \cup {[form |-> "tuple", sizes |-> <<3>>], [form |-> "malformed", sizes |-> <<>>]}
\* the answers of the contour routine for a band: rings of the sizes given in
\* two arrays, the same in two lists, or an answer of another shape
FilledResults ==
    {[form |-> "arrays", sizes |-> z] : z \in {<<>>, <<1>>, <<3>>, <<3, 4>>, <<1, 3>>}}
    \cup {[form |-> "lists", sizes |-> <<4>>], [form |-> "malformed", sizes |-> <<>>]}
\* the routine answers level lev as the entry lev % MaxLevels of these
ContourAnswers == [0 .. MaxLevels - 1 -> ContourResults]
FilledAnswers == [0 .. MaxLevels - 1 -> FilledResults]
PlainContour == [k \in 0 .. MaxLevels - 1 |-> [form |-> "list", sizes |-> <<2>>]]
PlainFilled == [k \in 0 .. MaxLevels - 1 |-> [form |-> "arrays", sizes |-> <<3>>]]

ModeArguments ==
    {PyNone, PyStr("contourf"), PyStr("contour"), PyStr("quiver"), PyStr("surface"), PyInt(1)}
CmapArguments == {PyNone, PyStr("jet"), PyStr("viridis"), Colormap("jet", 2)}
NameArguments == {PyNone, PyStr("u")}
ScaleArguments == {PyNone, PyInt(1), PyInt(2)}

ScalarCall(transformer, scalar_field, mode, levels, cmap, name, contour, filled) ==
    [fn |-> "add_scalar_field_to", transformer |-> transformer,
     vertices |-> FieldVertices, cells |-> FieldCells,
     scalar_field |-> scalar_field, mode |-> mode, levels |-> levels,
     cmap |-> cmap, name |-> name, contour |-> contour, filled |-> filled]

VectorCall(transformer, vector_field, mode, levels, scale, cmap, name, contour, filled) ==
    [fn |-> "add_vector_field_to", transformer |-> transformer,
     vertices |-> FieldVertices, cells |-> FieldCells,
     vector_field |-> vector_field, mode |-> mode, levels |-> levels, scale |-> scale,
     cmap |-> cmap, name |-> name, contour |-> contour, filled |-> filled]

\* calls that violate a precondition: a marker array of the wrong shape, a
\* negative marker, a style of the wrong type
BadCellMarkers(n) ==
    {Array([c \in 0 .. n - 1 |-> 0]), Array([c \in 0 .. n |-> 0]),
     Array([c \in 0 .. n - 1 |-> -1])}
BadFaceMarkers(n) ==
    {Array([c \in 0 .. n - 1 |-> [f \in 0 .. 2 |-> 0]]),
     Array([c \in 0 .. n |-> [f \in 0 .. 2 |-> 0]]),
     Array([c \in 0 .. n - 1 |-> [f \in 0 .. 2 |-> f - 1]])}

----------------------------------------------------------------------------
(* The calls. *)

Idle ==
    /\ pc = "idle"
    /\ call = [fn |-> "none"]
    /\ raised = NoError
    /\ ret = <<>>
    /\ geo_map = <<>>
    /\ segment_markers = <<>>
    /\ colors = <<>>
    /\ weights = <<>>
    /\ v = 0
    /\ previous_marker = PyNone
    /\ previous_coordinates = <<>>
    /\ multiline_coordinates = <<>>
    /\ multiline_properties = <<>>
    /\ script = <<>>
    /\ rendered = <<>>

\* the call add_mesh_to(geo_map, ...) with the arguments a, from start to end
DoAddMeshTo(a) ==
    \E r \in {AddMeshTo(geo_map, a)} :
    /\ call' = a
    /\ raised' = r.raised
    /\ geo_map' = r.geo_map
    /\ pc' = "done"
    /\ UNCHANGED <<ret, domain_locals>>
    /\ UNCHANGED template

\* mesh_plotter.add_mesh_to(geo_map, ...)
CallAddMeshTo ==
    /\ pc = "idle"
    /\ \E n \in 1 .. MaxCells + 1 :
          \* meshes with marked cells and faces, under a few styles
          \/ /\ n <= MaxCells
             /\ \E st \in GeometrySettings :
                   \E cm \in CellMarkerArrays(n, {0, MaxMarker}),
                      fm \in FaceMarkerArrays(n, Markers \cup {-1}) :
                      DoAddMeshTo(MeshCall(n, st[1], cm, fm, st[2], st[3], st[4]))
          \* meshes with marked faces, under every face style
          \/ /\ n <= MaxCells
             /\ \E fm \in FaceMarkerArrays(n, {-1, 0}), st \in FaceStyles :
                   DoAddMeshTo(MeshCall(n, "None", NoArray, fm, ArgNone, st[1], st[2]))
          \* meshes with marked cells, under every cell style
          \/ \E cm \in CellMarkerArrays(n, Markers) :
                \E cc \in ColorArguments \cup {ArgValue(PyStr("none"))} :
                   DoAddMeshTo(MeshCall(n, "None", cm, NoArray, cc, ArgNone, ArgNone))
          \* calls that violate a precondition
          \/ /\ n = 1
             /\ \E cm \in BadCellMarkers(n), fm \in BadFaceMarkers(n) :
                   \E cc \in {ArgNone, ArgValue(PyInt(1))},
                      fc \in {ArgNone, ArgDict([m \in {0} |-> PyInt(1)])},
                      fw \in {ArgNone, ArgValue(PyStr("red"))} :
                      DoAddMeshTo(MeshCall(n, "None", cm, fm, cc, fc, fw))

\* BasePlotter._process_optional_argument_on_markers(argument, default,
\* unique_markers), called on its own
CallProcessOptionalArgumentOnMarkers ==
    /\ pc = "idle"
    /\ \E default \in {PyStr("none"), PyStr("black"), PyInt(1)},
          unique_markers \in SUBSET (-1 .. MaxMarker),
          argument \in ColorArguments \cup WeightArguments
                           \cup {ArgDict([m \in {0} |-> PyNone])} :
          /\ unique_markers # {}
          /\ \E r \in {ProcessOptionalArgumentOnMarkers(argument, default, unique_markers)} :
                /\ call' = [fn |-> "_process_optional_argument_on_markers",
                            argument |-> argument, default |-> default,
                            unique_markers |-> unique_markers]
                /\ raised' = r.raised
                /\ ret' = r.value
    /\ pc' = "done"
    /\ UNCHANGED <<geo_map, domain_locals>>
    /\ UNCHANGED template

SpecMarkers == Idle /\ [][CallProcessOptionalArgumentOnMarkers]_vars

\* DoAddDomainTo of a plotter that keeps the lines of its last call
DoAddDomainToKeepingLines(a) ==
    \E markers \in {IF a.segment_markers.given THEN a.segment_markers.array
                    ELSE DefaultSegmentMarkers(a.vertices)} :
    \E color_table \in {ProcessOptionalArgumentOnMarkers(
                            a.colors, PyStr("black"), Values(markers))},
       weight_table \in {ProcessOptionalArgumentOnMarkers(
                             a.weights, PyInt(1), Values(markers))} :
    \E e \in {IF Shape0(markers) # Shape0(a.vertices) - 1 THEN "AssertionError"
              ELSE IF color_table.raised # NoError THEN color_table.raised
              ELSE weight_table.raised} :
    /\ call' = a
    /\ raised' = e
    /\ pc' = IF e = NoError THEN "loop" ELSE "done"
    /\ segment_markers' = IF e = NoError THEN markers ELSE segment_markers
    /\ colors' = IF e = NoError THEN color_table.value ELSE colors
    /\ weights' = IF e = NoError THEN weight_table.value ELSE weights
    /\ UNCHANGED <<multiline_coordinates, multiline_properties>>
    /\ previous_marker' = IF e = NoError THEN PyInt(markers[0]) ELSE previous_marker
    /\ previous_coordinates' =
          IF e = NoError THEN <<Transform(a.transformer, a.vertices[0])>>
          ELSE previous_coordinates
    /\ v' = 0
    /\ UNCHANGED <<ret, geo_map>>
    /\ UNCHANGED template

\* the start of add_domain_to(geo_map, ...) with the arguments a: the markers
\* and the style tables, then the entry of _convert_domain_to_geojson
DoAddDomainTo(a) ==
    \E markers \in {IF a.segment_markers.given THEN a.segment_markers.array
                    ELSE DefaultSegmentMarkers(a.vertices)} :
    \E color_table \in {ProcessOptionalArgumentOnMarkers(
                            a.colors, PyStr("black"), Values(markers))},
       weight_table \in {ProcessOptionalArgumentOnMarkers(
                             a.weights, PyInt(1), Values(markers))} :
    \E e \in {IF Shape0(markers) # Shape0(a.vertices) - 1 THEN "AssertionError"
              ELSE IF color_table.raised # NoError THEN color_table.raised
              ELSE weight_table.raised} :
    /\ call' = a
    /\ raised' = e
    /\ pc' = IF e = NoError THEN "loop" ELSE "done"
    /\ segment_markers' = IF e = NoError THEN markers ELSE segment_markers
    /\ colors' = IF e = NoError THEN color_table.value ELSE colors
    /\ weights' = IF e = NoError THEN weight_table.value ELSE weights
    /\ multiline_coordinates' = <<>>
    /\ multiline_properties' = <<>>
    /\ previous_marker' = IF e = NoError THEN PyInt(markers[0]) ELSE previous_marker
    /\ previous_coordinates' =
          IF e = NoError THEN <<Transform(a.transformer, a.vertices[0])>>
          ELSE previous_coordinates
    /\ v' = 0
    /\ UNCHANGED <<ret, geo_map>>
    /\ UNCHANGED template

\* domain_plotter.add_domain_to(geo_map, ...)
CallAddDomainTo ==
    /\ pc = "idle"
    /\ \E K \in 2 .. MaxVertices :
          \* every marker array, under a few styles
          \/ \E st \in GeometrySettings, sm \in SegmentMarkerArrays(K) :
                DoAddDomainTo(DomainCall(K, st[1], sm, st[3], st[4]))
          \* the shorter curves, under every style
          \/ /\ K < MaxVertices
             /\ \E sm \in SegmentMarkerArrays(K), st \in FaceStyles :
                   DoAddDomainTo(DomainCall(K, "None", sm, st[1], st[2]))
          \* calls that violate a precondition
          \/ /\ K = 2
             /\ \E sm \in {Array([k \in 0 .. K - 1 |-> 0]), Array([k \in 0 .. K - 2 |-> -1]),
                           Array([k \in 0 .. K - 2 |-> 0])},
                   ca \in {ArgNone, ArgValue(PyInt(1))},
                   wa \in {ArgNone, ArgDict([m \in {0} |-> PyStr("red")])} :
                   DoAddDomainTo(DomainCall(K, "None", sm, ca, wa))

\* one pass of the loop "for v in range(vertices.shape[0])"
DomainLoopStep ==
    /\ pc = "loop"
    /\ v < Shape0(call.vertices)
    /\ \E current_marker \in {CurrentMarker(call.vertices, segment_markers, v)} :
       \E flush \in {Flush(current_marker, previous_marker)} :
       \E previous_properties \in
              {IF flush THEN PreviousProperties(colors, weights, previous_marker)
               ELSE <<>>} :
       \E e \in {IF ~flush THEN NoError
                 ELSE IF Len(previous_coordinates) < 2 THEN "IndexError"
                 ELSE IF /\ previous_marker \in DictKeys(multiline_properties)
                         /\ DictGet(multiline_properties, previous_marker)
                                # previous_properties
                 THEN "AssertionError"
                 ELSE NoError} :
       \E reset \in {IF flush /\ e = NoError THEN ResetCoordinates(previous_coordinates)
                     ELSE previous_coordinates} :
          /\ raised' = e
          /\ pc' = IF e = NoError THEN "loop" ELSE "done"
          /\ multiline_coordinates' =
                IF flush /\ e = NoError
                THEN DictAppend(multiline_coordinates, previous_marker, previous_coordinates)
                ELSE multiline_coordinates
          /\ multiline_properties' =
                IF flush /\ e = NoError /\ previous_marker \notin DictKeys(multiline_properties)
                THEN DictSet(multiline_properties, previous_marker, previous_properties)
                ELSE multiline_properties
          /\ previous_marker' = IF flush /\ e = NoError THEN current_marker ELSE previous_marker
          /\ previous_coordinates' =
                IF e # NoError THEN previous_coordinates
                ELSE IF current_marker # FinalizePlaceholder
                THEN Append(reset, Transform(call.transformer, call.vertices[v + 1]))
                ELSE reset
          /\ v' = IF e = NoError THEN v + 1 ELSE v
    /\ UNCHANGED <<call, ret, geo_map, segment_markers, colors, weights>>
    /\ UNCHANGED template

\* the end of _convert_domain_to_geojson and of add_domain_to: the features, the
\* GeoJson item on the map, the legend
DomainReturn ==
    /\ pc = "loop"
    /\ v = Shape0(call.vertices)
    /\ \E json \in {FeatureCollection(DictFeatures("MultiLineString",
                        multiline_coordinates, multiline_properties))},
          legend \in {SegmentLegend(colors, Values(segment_markers))} :
          /\ geo_map' = IF legend.raised # NoError THEN Append(geo_map, GeoJson(json))
                        ELSE WithLegend(Append(geo_map, GeoJson(json)), legend)
          /\ raised' = legend.raised
    /\ pc' = "done"
    /\ UNCHANGED <<call, ret, domain_locals>>
    /\ UNCHANGED template

NextDomain == CallAddDomainTo \/ DomainLoopStep \/ DomainReturn

SpecDomain == Idle /\ [][NextDomain]_vars

\* the loop runs to its end: the passes and the return are always taken
SpecDomainFair == SpecDomain /\ WF_vars(DomainLoopStep) /\ WF_vars(DomainReturn)

\* the calls that take marker styles
SpecStyles == Idle /\ [][CallAddMeshTo \/ NextDomain]_vars

DoAddScalarFieldTo(a) ==
    \E r \in {AddScalarFieldTo(geo_map, a)} :
    /\ call' = a
    /\ raised' = r.raised
    /\ geo_map' = r.geo_map
    /\ pc' = "done"
    /\ UNCHANGED <<ret, domain_locals>>
    /\ UNCHANGED template

\* solution_plotter.add_scalar_field_to(geo_map, ...)
CallAddScalarFieldTo ==
    /\ pc = "idle"
    /\ \/ \* iso-lines: every answer of the contour routine
          \E n \in 1 .. MaxLevels, transformer \in {"None", "pyproj"},
             contour \in ContourAnswers :
             DoAddScalarFieldTo(ScalarCall(transformer, [k \in DOMAIN FieldVertices |-> 18 * k],
                 PyStr("contour"), RisingLevels(n), PyNone, PyNone, contour, PlainFilled))
       \/ \* filled bands: every answer of the contour routine
          \E n \in 1 .. MaxLevels, transformer \in {"None", "pyproj"},
             filled \in FilledAnswers :
             DoAddScalarFieldTo(ScalarCall(transformer, [k \in DOMAIN FieldVertices |-> 18 * k],
                 PyNone, RisingLevels(n), PyNone, PyNone, PlainContour, filled))
       \/ \* every mode, levels, colour map and name
          \E scalar_field \in ScalarFields, mode \in ModeArguments,
             levels \in LevelsArguments, cmap \in CmapArguments, name \in NameArguments :
             DoAddScalarFieldTo(ScalarCall("None", scalar_field, mode, levels, cmap, name,
                 PlainContour, PlainFilled))

DoAddVectorFieldTo(a) ==
    \E r \in {AddVectorFieldTo(geo_map, a)} :
    /\ call' = a
    /\ raised' = r.raised
    /\ geo_map' = r.geo_map
    /\ pc' = "done"
    /\ UNCHANGED <<ret, domain_locals>>
    /\ UNCHANGED template

\* solution_plotter.add_vector_field_to(geo_map, ...)
CallAddVectorFieldTo ==
    /\ pc = "idle"
    /\ \/ \* arrows: every vector field and scale
          \E vector_field \in VectorFields, scale \in ScaleArguments,
             transformer \in {"None", "pyproj"}, n \in 1 .. MaxLevels,
             cmap \in {PyNone, Colormap("jet", 2)} :
             DoAddVectorFieldTo(VectorCall(transformer, vector_field, PyStr("quiver"),
                 RisingLevels(n), scale, cmap, PyNone, PlainContour, PlainFilled))
       \/ \* every mode, levels, colour map and name
          \E vector_field \in EvenVectorFields, mode \in ModeArguments,
             levels \in LevelsArguments, cmap \in CmapArguments, name \in NameArguments :
             DoAddVectorFieldTo(VectorCall("None", vector_field, mode, levels, PyInt(1),
                 cmap, name, PlainContour, PlainFilled))
       \/ \* iso-lines and filled bands of the norm: answers of the contour routine
          \E mode \in {PyStr("contour"), PyStr("contourf")},
             contour \in {PlainContour,
                          [k \in 0 .. MaxLevels - 1 |-> [form |-> "list", sizes |-> <<1>>]],
                          [k \in 0 .. MaxLevels - 1 |->
                             [form |-> "list", sizes |-> IF k = 0 THEN <<>> ELSE <<1, 3>>]]},
             filled \in {PlainFilled, [k \in 0 .. MaxLevels - 1 |->
                             [form |-> "arrays", sizes |-> IF k = 0 THEN <<>> ELSE <<3, 4>>]]},
             levels \in {LevelsNone, RisingLevels(MaxLevels), LevelsInt(2)},
             scale \in ScaleArguments :
             DoAddVectorFieldTo(VectorCall("pyproj",
                 [k \in DOMAIN FieldVertices |-> IF k = 0 THEN <<0, 0>> ELSE <<0, 18 * k>>],
                 mode, levels, scale, PyNone, PyNone, contour, filled))

NextFields == CallAddScalarFieldTo \/ CallAddVectorFieldTo

\* the calls of the solution plotter
SpecFields == Idle /\ [][NextFields]_vars

\* the calls of every plotter
SpecCalls == Idle /\ [][CallAddMeshTo \/ NextDomain \/ NextFields]_vars

SpecMesh == Idle /\ [][CallAddMeshTo]_vars

----------------------------------------------------------------------------
(* GeoJsonWithArrows and PatchedScript *)

\* a piece of the text of a script; the piece
\* "arrowheads: " + json.dumps(options) + "," holds the options
Text(s) == [text |-> s, options |-> <<>>]
Arrowheads(options) == [text |-> "arrowheads:", options |-> options]

\* folium.utilities.parse_options(yawn=..., size=..., frequency=...,
\* proportionalToTotal=...): the arguments that are not None, by name
ParseOptions(yawn, size, frequency, proportionalToTotal) ==
    LET Given(kv) == kv[2] # PyNone
    IN SelectSeq(<<<<"yawn", yawn>>, <<"size", size>>, <<"frequency", frequency>>,
                   <<"proportionalToTotal", proportionalToTotal>>>>, Given)

\* the text that the "script" macro of the template of GeoJson renders
OriginalScript == <<Text("var geo_json = "), Text("L.geoJson(null, {"), Text("}).addTo(map);")>>

\* PatchedScript(original_script, options): a wrapper around the script found;
\* the wrappers are listed from the innermost one
PatchedScript(original_script, options) == Append(original_script, options)

RECURSIVE Replace(_, _)
\* output.replace("L.geoJson(null, {", "L.geoJson(null, {" + "arrowheads: " + ...)
Replace(output, options) ==
    IF output = <<>> THEN <<>>
    ELSE (IF Head(output) = Text("L.geoJson(null, {")
          THEN <<Head(output), Arrowheads(options)>>
          ELSE <<Head(output)>>) \o Replace(Tail(output), options)

\* "arrowheads:" in output
HasArrowheads(output) == \E k \in 1 .. Len(output) : output[k].text = "arrowheads:"

\* Patch without the test: every wrapper inserts its options
PatchAlways(output, options) == Replace(output, options)

\* PatchedScript.__call__, after the call of original_script
Patch(output, options) ==
    IF ~HasArrowheads(output) THEN Replace(output, options) ELSE output

RECURSIVE CallScript(_)
\* script(...): the macro of the template, or PatchedScript.__call__ of the
\* outermost wrapper
CallScript(wrappers) ==
    IF wrappers = <<>> THEN OriginalScript
    ELSE Patch(CallScript(SubSeq(wrappers, 1, Len(wrappers) - 1)), wrappers[Len(wrappers)])

\* GeoJsonWithArrows(data, yawn=..., frequency=...).render(): the object with
\* its arrows_options wraps the script found in the template, stores the
\* wrapper there and is rendered by it
Render ==
    /\ Len(script) < MaxRenders
    /\ \E yawn \in {PyInt(60), PyNone}, frequency \in {PyStr("allvertices"), PyStr("endonly")} :
       \E arrows_options \in {ParseOptions(yawn, PyStr("15%"), frequency, PyBool(FALSE))} :
       \E patched_script \in {PatchedScript(script, arrows_options)} :
          /\ script' = patched_script
          /\ rendered' = [object |-> arrows_options, output |-> CallScript(patched_script)]
          /\ raised' = IF \E k \in 1 .. Len(CallScript(script)) :
                              CallScript(script)[k] = Text("L.geoJson(null, {")
                       THEN NoError ELSE "AssertionError"
    /\ UNCHANGED <<pc, call, ret, geo_map, domain_locals>>

\* objects rendered one after another in one process
SpecRender == Idle /\ [][Render]_vars

----------------------------------------------------------------------------
(* Calls made one after another, on one map or on a new one. *)

\* the geometry collections on a map
NumCollections(map) ==
    Cardinality({k \in 1 .. Len(map) : map[k].item \in {"GeoJson", "GeoJsonWithArrows"}})

\* a mesh without markers and styles; a mesh with a cell legend; a mesh with
\* two legends; a mesh whose cell markers have the wrong shape
SessionMeshCalls ==
    {MeshCall(1, "None", NoArray, NoArray, ArgNone, ArgNone, ArgNone),
     MeshCall(2, "None", Array([c \in 0 .. 1 |-> c]), NoArray,
              ArgDict([m \in Markers |-> PaletteColor(m)]), ArgNone, ArgNone),
     MeshCall(2, "pyproj", Array([c \in 0 .. 1 |-> c]),
              Array([c \in 0 .. 1 |-> [f \in 0 .. 2 |-> IF c = 0 THEN f % 2 ELSE 1]]),
              ArgDict([m \in Markers |-> PaletteColor(m)]),
              ArgDict([m \in Markers |-> PaletteColor(m + 1)]),
              ArgDict([m \in Markers |-> PaletteWeight(m)])),
     MeshCall(1, "None", Array([c \in 0 .. 1 |-> 0]), NoArray, ArgNone, ArgNone, ArgNone)}

\* a domain without markers and styles; a domain with a legend, whose first and
\* last segment have one marker and the segment between them another
SessionDomainCalls ==
    {DomainCall(3, "None", NoArray, ArgNone, ArgNone),
     DomainCall(4, "pyproj", Array([k \in 0 .. 2 |-> k % 2]),
                ArgDict([m \in Markers |-> PaletteColor(m)]), ArgNone)}

\* iso-lines of a scalar field; arrows of a vector field, with and without a scale
SessionScalarCalls ==
    {ScalarCall("None", [k \in DOMAIN FieldVertices |-> 18 * k], PyStr("contour"),
                RisingLevels(2), PyNone, PyNone, PlainContour, PlainFilled)}
SessionVectorCalls ==
    {VectorCall("None", [k \in DOMAIN FieldVertices |-> <<0, 18 * k>>], PyStr("quiver"),
                RisingLevels(2), scale, PyNone, PyNone, PlainContour, PlainFilled) :
        scale \in {PyNone, PyInt(1)}}

SessionAddMeshTo == pc = "idle" /\ \E a \in SessionMeshCalls : DoAddMeshTo(a)
SessionAddDomainTo == pc = "idle" /\ \E a \in SessionDomainCalls : DoAddDomainTo(a)
SessionAddScalarFieldTo == pc = "idle" /\ \E a \in SessionScalarCalls : DoAddScalarFieldTo(a)
SessionAddVectorFieldTo == pc = "idle" /\ \E a \in SessionVectorCalls : DoAddVectorFieldTo(a)

\* the caller goes on to another call with the same map
NextCall ==
    /\ pc = "done"
    /\ NumCollections(geo_map) < MaxCalls
    /\ pc' = "idle"
    /\ UNCHANGED <<call, raised, ret, geo_map, domain_locals>>
    /\ UNCHANGED template

\* the caller goes on to another call with a new map: folium.Map()
NewMap ==
    /\ pc = "done"
    /\ geo_map # <<>>
    /\ pc' = "idle"
    /\ geo_map' = <<>>
    /\ UNCHANGED <<call, raised, ret, domain_locals>>
    /\ UNCHANGED template

NextSession ==
    \/ SessionAddMeshTo
    \/ SessionAddDomainTo
    \/ DomainLoopStep
    \/ DomainReturn
    \/ SessionAddScalarFieldTo
    \/ SessionAddVectorFieldTo
    \/ NextCall
    \/ NewMap

\* render calls in any order, on one plotter
SpecSession == Idle /\ [][NextSession]_vars

----------------------------------------------------------------------------
(* What the properties of add_mesh_to speak of: the call's arguments as the  *)
(* caller gave them, and the items the call has left on the map.           *)

\* add_mesh_to has returned
MeshReturned == pc = "done" /\ call.fn = "add_mesh_to" /\ raised = NoError

\* the feature collection the call added to the (empty) map
MeshFeatures == geo_map[1].data.features
Polygons == {k \in 1 .. Len(MeshFeatures) : MeshFeatures[k].geometry.type = "MultiPolygon"}
Lines == {k \in 1 .. Len(MeshFeatures) : MeshFeatures[k].geometry.type = "MultiLineString"}

NumCells == Cardinality(DOMAIN call.cells)
CellMarkerOf(c) == IF call.cell_markers.given THEN call.cell_markers.array[c] ELSE 0
FaceMarkerOf(c, f) == IF call.face_markers.given THEN call.face_markers.array[c][f] ELSE 0
Mixed(c) == \E f, g \in 0 .. 2 : FaceMarkerOf(c, f) # FaceMarkerOf(c, g)
MixedCells == {c \in 0 .. NumCells - 1 : Mixed(c)}
UniformCells == {c \in 0 .. NumCells - 1 : ~Mixed(c)}

\* the style a marker resolves to under a caller's argument
StyleOf(argument, default, m) ==
    IF argument.kind = "value" THEN argument.value
    ELSE IF argument.kind = "dict" /\ m \in DOMAIN argument.items THEN argument.items[m]
    ELSE default

FaceColorOf(m) == StyleOf(call.face_colors, PyStr("black"), m)
FaceWeightOf(m) == StyleOf(call.face_weights, PyInt(1), m)
CellColorOf(m) == StyleOf(call.cell_colors, PyStr("none"), m)

\* the projected vertex k of cell c, the ring of the cell, the segment of face f
Corner(c, k) == Transform(call.transformer, call.vertices[call.cells[c][k]])
Ring(c) == <<Corner(c, 0), Corner(c, 1), Corner(c, 2), Corner(c, 0)>>
Edge(c, f) ==
    IF f = 0 THEN <<Corner(c, 0), Corner(c, 1)>>
    ELSE IF f = 1 THEN <<Corner(c, 1), Corner(c, 2)>>
    ELSE <<Corner(c, 0), Corner(c, 2)>>

\* the polygon features that hold the ring of cell c, and how often one holds it
Holds(k, c) ==
    \E j \in 1 .. Len(MeshFeatures[k].geometry.coordinates) :
        MeshFeatures[k].geometry.coordinates[j] = <<Ring(c)>>
PolygonsHolding(c) == {k \in Polygons : Holds(k, c)}

RECURSIVE SumLen(_, _)
SumLen(features, k) ==
    IF k > Len(features) THEN 0
    ELSE (IF features[k].geometry.type = "MultiLineString"
          THEN Len(features[k].geometry.coordinates) ELSE 0) + SumLen(features, k + 1)

\* the number of line segments of the collection
NumLineSegments == SumLen(MeshFeatures, 1)

C2_UniformCells ==
    MeshReturned =>
        /\ \A c \in UniformCells :
              /\ PolygonsHolding(c) # {}
              /\ \A k \in PolygonsHolding(c) :
                    /\ MeshFeatures[k].properties.stroke = PyBool(TRUE)
                    /\ MeshFeatures[k].properties.color = FaceColorOf(FaceMarkerOf(c, 0))
                    /\ MeshFeatures[k].properties.weight = FaceWeightOf(FaceMarkerOf(c, 0))
        /\ NumLineSegments = 3 * (NumCells - Cardinality(UniformCells))
        /\ (MixedCells = {} => Lines = {})

\* a returned collection with a uniform cell styled by the caller's dicts, next
\* to a cell that is not uniform
C2_Witness ==
    /\ MeshReturned
    /\ MixedCells # {}
    /\ \E c \in UniformCells :
          /\ call.face_colors.kind = "dict"
          /\ FaceMarkerOf(c, 0) \in DOMAIN call.face_colors.items
          /\ FaceWeightOf(FaceMarkerOf(c, 0)) # PyInt(1)

\* the group key of a cell, and the keys and markers that occur
KeyOf(c) == <<CellMarkerOf(c), ~Mixed(c)>>
CellKeys == {KeyOf(c) : c \in 0 .. NumCells - 1}
MixedMarkers == {FaceMarkerOf(c, f) : c \in MixedCells, f \in 0 .. 2}

\* the polygons of the cells with key K, in cell order
RingsOfKey(K) ==
    LET InGroup(c) == KeyOf(c) = K
        members == SelectSeq([k \in 1 .. NumCells |-> k - 1], InGroup)
    IN [k \in 1 .. Len(members) |-> <<Ring(members[k])>>]

\* the segments of the edges marked m of the cells that are not uniform, in order
SegmentsOfMarker(m) ==
    LET Marked(e) == Mixed(e[1]) /\ FaceMarkerOf(e[1], e[2]) = m
        members == SelectSeq([k \in 1 .. 3 * NumCells |-> <<(k - 1) \div 3, (k - 1) % 3>>],
                             Marked)
    IN [k \in 1 .. Len(members) |-> Edge(members[k][1], members[k][2])]

\* C3: the returned collection partitions the mesh: one polygon feature per key
\* (cell marker, all three face markers equal) that occurs, holding exactly the
\* cells of that key, every cell in exactly one feature as a closed ring of 4
\* points; one line feature per face marker on an edge of a cell that is not
\* uniform, holding the segments of those edges, 3 segments per such cell.
C3_Partition ==
    MeshReturned =>
        /\ Cardinality(Polygons) = Cardinality(CellKeys)
        /\ {MeshFeatures[k].geometry.coordinates : k \in Polygons}
               = {RingsOfKey(K) : K \in CellKeys}
        /\ \A c \in 0 .. NumCells - 1 : Cardinality(PolygonsHolding(c)) = 1
        /\ \A k \in Polygons :
              \A j \in 1 .. Len(MeshFeatures[k].geometry.coordinates) :
                 LET polygon == MeshFeatures[k].geometry.coordinates[j] IN
                 /\ Len(polygon) = 1
                 /\ Len(polygon[1]) = 4
                 /\ polygon[1][1] = polygon[1][4]
        /\ Cardinality(Lines) = Cardinality(MixedMarkers)
        /\ \E g \in [Lines -> MixedMarkers] :
              /\ \A k, l \in Lines : k # l => g[k] # g[l]
              /\ \A k \in Lines :
                    MeshFeatures[k].geometry.coordinates = SegmentsOfMarker(g[k])
        /\ NumLineSegments = 3 * Cardinality(MixedCells)
        /\ Len(MeshFeatures) = Cardinality(Polygons) + Cardinality(Lines)

\* a returned collection with two polygon features and two line features, one of
\* the line features with two segments
C3_Witness ==
    /\ MeshReturned
    /\ Cardinality(Polygons) >= 2
    /\ Cardinality(Lines) >= 2
    /\ \E k \in Lines : Len(MeshFeatures[k].geometry.coordinates) >= 2

----------------------------------------------------------------------------
(* _process_optional_argument_on_markers *)

ProcessReturned ==
    pc = "done" /\ call.fn = "_process_optional_argument_on_markers" /\ raised = NoError

\* C7, as claimed: the output has max(unique_markers) + 1 entries and, at every
\* index m from 0 to max(unique_markers), holds the supplied value for a scalar
\* argument, argument[m] for a mapping with key m, and the default otherwise.
C7_EveryIndex ==
    ProcessReturned =>
        /\ DOMAIN ret = 0 .. SetMax(call.unique_markers)
        /\ \A m \in 0 .. SetMax(call.unique_markers) :
              ret[m] = StyleOf(call.argument, call.default, m)

\* C7, amended: the output has max(unique_markers) + 1 entries; at every index m
\* that is one of unique_markers it holds the supplied value for a scalar
\* argument, argument[m] for a mapping with key m, and the default otherwise; at
\* every other index it holds the default.
C7_MarkersInUse ==
    ProcessReturned =>
        /\ DOMAIN ret = 0 .. SetMax(call.unique_markers)
        /\ \A m \in 0 .. SetMax(call.unique_markers) :
              ret[m] = IF m \in call.unique_markers
                       THEN StyleOf(call.argument, call.default, m)
                       ELSE call.default

\* an output with an index that is no marker in use, under a mapping that has
\* the index as a key
C7_Witness ==
    /\ ProcessReturned
    /\ call.argument.kind = "dict"
    /\ \E m \in 0 .. SetMax(call.unique_markers) :
          /\ m \notin call.unique_markers
          /\ m \in DOMAIN call.argument.items
          /\ call.argument.items[m] # call.default
          /\ ret[m] = call.default
    /\ \E m \in call.unique_markers :
          m \in DOMAIN call.argument.items /\ ret[m] = call.argument.items[m]

----------------------------------------------------------------------------
(* The domain plotter: what a call of add_domain_to was given and produced. *)

DomainReturned == pc = "done" /\ call.fn = "add_domain_to" /\ raised = NoError
Scanning == pc = "loop" /\ v < Shape0(call.vertices)

DomainFeatures == geo_map[1].data.features

NumVertices == Shape0(call.vertices)
SegmentMarkerOf(i) == IF call.segment_markers.given THEN call.segment_markers.array[i] ELSE 0
SegmentMarkersInUse == {SegmentMarkerOf(i) : i \in 0 .. NumVertices - 2}

\* the transformed vertex k
Point(k) == Transform(call.transformer, call.vertices[k])

\* the maximal runs of consecutive equal markers, each named by its first segment
RunStarts == {i \in 0 .. NumVertices - 2 : i = 0 \/ SegmentMarkerOf(i) # SegmentMarkerOf(i - 1)}
RunEnd(s) ==
    CHOOSE e \in s .. NumVertices - 2 :
        /\ \A j \in s .. e : SegmentMarkerOf(j) = SegmentMarkerOf(s)
        /\ e = NumVertices - 2 \/ SegmentMarkerOf(e + 1) # SegmentMarkerOf(s)
\* the polyline of the run that starts at segment s: its vertices, in order
RunPart(s) == [j \in 1 .. RunEnd(s) - s + 2 |-> Point(s + j - 1)]
\* the polylines of the runs of marker m, in the order of the curve
RunsOfMarker(m) ==
    LET starts == SortedSeq({s \in RunStarts : SegmentMarkerOf(s) = m})
    IN [j \in 1 .. Len(starts) |-> RunPart(starts[j])]

\* the number of parts, and of segments, of a sequence of line features from k on
RECURSIVE NumParts(_, _)
NumParts(features, k) ==
    IF k > Len(features) THEN 0
    ELSE Len(features[k].geometry.coordinates) + NumParts(features, k + 1)
RECURSIVE NumSegments(_)
NumSegments(parts) ==
    IF parts = <<>> THEN 0 ELSE Len(Head(parts)) - 1 + NumSegments(Tail(parts))
RECURSIVE NumSegmentsOfFeatures(_, _)
NumSegmentsOfFeatures(features, k) ==
    IF k > Len(features) THEN 0
    ELSE NumSegments(features[k].geometry.coordinates)
             + NumSegmentsOfFeatures(features, k + 1)

\* C4: when add_domain_to returns, the line features correspond one to one to
\* the distinct segment markers, the parts of the feature of a marker are
\* exactly the polylines of the maximal runs of that marker in the order of the
\* curve (a first and a last run of the same marker stay two parts), and every
\* segment lies in exactly one part.
C4_Runs ==
    DomainReturned =>
        /\ \A k \in 1 .. Len(DomainFeatures) :
              DomainFeatures[k].geometry.type = "MultiLineString"
        /\ Len(DomainFeatures) = Cardinality(SegmentMarkersInUse)
        /\ \E g \in [1 .. Len(DomainFeatures) -> SegmentMarkersInUse] :
              /\ \A j, k \in DOMAIN g : g[j] = g[k] => j = k
              /\ \A k \in DOMAIN g :
                    DomainFeatures[k].geometry.coordinates = RunsOfMarker(g[k])
        /\ NumSegmentsOfFeatures(DomainFeatures, 1) = NumVertices - 1
        /\ \A i \in 0 .. NumVertices - 2 :
              Cardinality({<<k, j>> \in (1 .. Len(DomainFeatures)) \X (1 .. NumVertices) :
                  /\ j <= Len(DomainFeatures[k].geometry.coordinates)
                  /\ \E n \in 1 .. Len(DomainFeatures[k].geometry.coordinates[j]) - 1 :
                        /\ DomainFeatures[k].geometry.coordinates[j][n] = Point(i)
                        /\ DomainFeatures[k].geometry.coordinates[j][n + 1] = Point(i + 1)})
                  = 1

\* a curve whose first and last run carry the same marker, with another marker
\* between them and a run of two segments
C4_Witness ==
    /\ DomainReturned
    /\ NumVertices = MaxVertices
    /\ SegmentMarkerOf(0) = SegmentMarkerOf(NumVertices - 2)
    /\ SegmentMarkerOf(0) = SegmentMarkerOf(1)
    /\ SegmentMarkerOf(2) # SegmentMarkerOf(0)
    /\ Len(DomainFeatures) = 2
    /\ Len(DomainFeatures[1].geometry.coordinates) = 2
    /\ Len(DomainFeatures[1].geometry.coordinates[1]) = 3

\* the parts in the order of their flushes: the j-th flush is that of the j-th
\* run, appended to the parts of the feature of its marker; the features are in
\* the order of the first flush of their marker
FeatureOfMarker(m) ==
    1 + Cardinality({n \in SegmentMarkersInUse :
            \E s \in RunStarts : /\ SegmentMarkerOf(s) = n
                                 /\ \A t \in RunStarts : SegmentMarkerOf(t) = m => s < t})
FlushedPart(s) ==
    DomainFeatures[FeatureOfMarker(SegmentMarkerOf(s))].geometry.coordinates[
        Cardinality({t \in RunStarts : t <= s /\ SegmentMarkerOf(t) = SegmentMarkerOf(s)})]
FlushOrder == SortedSeq(RunStarts)
RECURSIVE Chain(_, _)
\* the points of the parts from the j-th flush on, a shared end point read once
Chain(order, j) ==
    IF j > Len(order) THEN <<>>
    ELSE (IF j = 1 THEN FlushedPart(order[j]) ELSE Tail(FlushedPart(order[j])))
             \o Chain(order, j + 1)

\* C5: when add_domain_to returns, the parts taken in flush order are
\* contiguous: each part has at least 2 points, the first part starts at vertex
\* 0, each later part starts at the last point of the part flushed before it,
\* the last part ends at vertex K-1, and the points of the parts read in flush
\* order are the transformed vertices in order.
C5_Contiguous ==
    DomainReturned =>
        /\ NumParts(DomainFeatures, 1) = Len(FlushOrder)
        /\ \A j \in 1 .. Len(FlushOrder) :
              LET part == FlushedPart(FlushOrder[j])
              IN /\ Len(part) >= 2
                 /\ j = 1 => part[1] = Point(0)
                 /\ j > 1 => part[1] = FlushedPart(FlushOrder[j - 1])[
                                           Len(FlushedPart(FlushOrder[j - 1]))]
                 /\ j = Len(FlushOrder) => part[Len(part)] = Point(NumVertices - 1)
        /\ Chain(FlushOrder, 1) = [k \in 1 .. NumVertices |-> Point(k - 1)]

\* three parts over two features, one of them of three points, under a transformer
C5_Witness ==
    /\ DomainReturned
    /\ call.transformer # "None"
    /\ Len(FlushOrder) = 3
    /\ Len(DomainFeatures) = 2
    /\ \E s \in RunStarts : Len(FlushedPart(s)) = 3

\* the parts and segments stored so far by the loop
StoredParts == NumParts(DictFeatures("MultiLineString", multiline_coordinates,
                                     multiline_properties), 1)
StoredSegments == NumSegmentsOfFeatures(DictFeatures("MultiLineString",
                      multiline_coordinates, multiline_properties), 1)
\* pass k meets a change of marker, or the end of the sequence
MarkerChange(k) == k >= 1 /\ k <= NumVertices - 2 /\ SegmentMarkerOf(k) # SegmentMarkerOf(k - 1)
EndOfSequence(k) == k = NumVertices - 1

\* C6: the scan of add_domain_to starts accumulating under the marker of the
\* first segment; a pass flushes exactly when it meets a change of marker or the
\* end of the sequence; the scan always ends, after exactly K passes, with as
\* many flushes as there are maximal runs, the last of them in the pass of the
\* end of the sequence, and with every segment flushed and none accumulated.
C6_Scan ==
    /\ [](Scanning /\ v = 0 =>
              /\ previous_marker = PyInt(SegmentMarkerOf(0))
              /\ previous_coordinates = <<Point(0)>>
              /\ StoredParts = 0)
    /\ [][Scanning =>
              /\ pc' = "loop" /\ v' = v + 1
              /\ (MarkerChange(v) \/ EndOfSequence(v)) => StoredParts' = StoredParts + 1
              /\ ~(MarkerChange(v) \/ EndOfSequence(v)) => StoredParts' = StoredParts
              /\ StoredSegments' + Len(previous_coordinates') - 1
                     = IF EndOfSequence(v) THEN v ELSE v + 1]_vars
    /\ (pc = "loop") ~> (DomainReturned /\ v = NumVertices)
    /\ [](pc = "loop" /\ v = NumVertices =>
              /\ previous_marker = FinalizePlaceholder
              /\ StoredParts = Cardinality(RunStarts)
              /\ StoredSegments = NumVertices - 1
              /\ Len(previous_coordinates) = 1)

\* a scan that has ended with three flushes, one of them of a run of two segments
C6_Witness ==
    /\ pc = "loop"
    /\ v = NumVertices
    /\ StoredParts = 3
    /\ Cardinality(RunStarts) = 3
    /\ NumVertices = MaxVertices
    /\ \E s \in RunStarts : RunEnd(s) > s

----------------------------------------------------------------------------
(* The markers a mapping leaves out. *)

IsKey(argument, m) == argument.kind = "dict" /\ m \in DOMAIN argument.items
Missing(argument, m) == argument.kind = "dict" /\ m \notin DOMAIN argument.items

\* an argument of the documented type
TypedArgument(argument, type) ==
    \/ argument.kind = "None"
    \/ argument.kind = "value" /\ argument.value.t = type
    \/ argument.kind = "dict" /\ \A k \in DOMAIN argument.items : argument.items[k].t = type

\* the call meets the preconditions on the arrays and on the types of the styles
MeshWellFormed ==
    /\ call.fn = "add_mesh_to"
    /\ call.cell_markers.given =>
          /\ DOMAIN call.cell_markers.array = 0 .. NumCells - 1
          /\ \A c \in 0 .. NumCells - 1 : call.cell_markers.array[c] >= 0
    /\ call.face_markers.given =>
          /\ DOMAIN call.face_markers.array = 0 .. NumCells - 1
          /\ \A c \in 0 .. NumCells - 1 :
                /\ DOMAIN call.face_markers.array[c] = 0 .. 2
                /\ \A f \in 0 .. 2 : call.face_markers.array[c][f] >= 0
    /\ TypedArgument(call.cell_colors, "str")
    /\ TypedArgument(call.face_colors, "str")
    /\ TypedArgument(call.face_weights, "int")
DomainWellFormed ==
    /\ call.fn = "add_domain_to"
    /\ call.segment_markers.given =>
          /\ DOMAIN call.segment_markers.array = 0 .. NumVertices - 2
          /\ \A i \in 0 .. NumVertices - 2 : call.segment_markers.array[i] >= 0
    /\ TypedArgument(call.colors, "str")
    /\ TypedArgument(call.weights, "int")

CellMarkersInUse == {CellMarkerOf(c) : c \in 0 .. NumCells - 1}
FaceMarkersInUse == {FaceMarkerOf(c, f) : c \in 0 .. NumCells - 1, f \in 0 .. 2}

\* the mapping with the markers it leaves out mapped to the default
Completed(argument, default, markers) ==
    IF argument.kind = "dict"
    THEN ArgDict([m \in DOMAIN argument.items \cup markers |->
                     IF m \in DOMAIN argument.items THEN argument.items[m] ELSE default])
    ELSE argument

\* two cells of one polygon group whose outlines are styled differently
StyleConflict ==
    \E c, d \in UniformCells :
        /\ CellMarkerOf(c) = CellMarkerOf(d)
        /\ <<FaceColorOf(FaceMarkerOf(c, 0)), FaceWeightOf(FaceMarkerOf(c, 0))>>
               # <<FaceColorOf(FaceMarkerOf(d, 0)), FaceWeightOf(FaceMarkerOf(d, 0))>>

\* the line features that hold face f of cell c
LinesHolding(c, f) ==
    {k \in Lines : \E j \in 1 .. Len(MeshFeatures[k].geometry.coordinates) :
                       MeshFeatures[k].geometry.coordinates[j] = Edge(c, f)}

----------------------------------------------------------------------------
(* The legends of add_mesh_to. *)

\* the legends on the map with the caption given
Legends(caption) ==
    {k \in 1 .. Len(geo_map) :
        geo_map[k].item = "LinearColormap" /\ geo_map[k].caption = caption}

\* the cell markers of the mesh that are given a colour
ColoredCellMarkers == {m \in CellMarkersInUse : CellColorOf(m) # PyStr("none")}

\* C9: a returned add_mesh_to has put a "Face markers" legend on the map exactly
\* when the face markers of the mesh have more than one distinct colour; its
\* values are the face markers of the mesh in ascending order and its colours
\* are the colours of those markers in the same order, the default for a marker
\* the mapping leaves out.
C9_FaceLegend ==
    MeshReturned =>
        /\ Legends("Face markers") # {}
               <=> Cardinality({FaceColorOf(m) : m \in FaceMarkersInUse}) > 1
        /\ Cardinality(Legends("Face markers")) <= 1
        /\ \A k \in Legends("Face markers") :
              /\ geo_map[k].index = SortedSeq(FaceMarkersInUse)
              /\ geo_map[k].colors =
                     [j \in 1 .. Cardinality(FaceMarkersInUse) |->
                         FaceColorOf(SortedSeq(FaceMarkersInUse)[j])]

\* a face legend over markers with an id between them that no face has and the
\* mapping has, one of the markers of the mesh being left out of the mapping
C9_Witness ==
    /\ MeshReturned
    /\ Legends("Face markers") # {}
    /\ \E m \in FaceMarkersInUse : Missing(call.face_colors, m)
    /\ \E m \in 0 .. SetMax(FaceMarkersInUse) :
          m \notin FaceMarkersInUse /\ IsKey(call.face_colors, m)

\* C10: a returned add_mesh_to has put a "Cell markers" legend on the map
\* exactly when the cell markers of the mesh whose colour is not "none" have
\* more than one distinct colour; its values are those markers in ascending
\* order and its colours are their colours in the same order.
C10_CellLegend ==
    MeshReturned =>
        /\ Legends("Cell markers") # {}
               <=> Cardinality({CellColorOf(m) : m \in ColoredCellMarkers}) > 1
        /\ Cardinality(Legends("Cell markers")) <= 1
        /\ \A k \in Legends("Cell markers") :
              /\ geo_map[k].index = SortedSeq(ColoredCellMarkers)
              /\ geo_map[k].colors =
                     [j \in 1 .. Cardinality(ColoredCellMarkers) |->
                         CellColorOf(SortedSeq(ColoredCellMarkers)[j])]

\* a cell legend of a mesh one of whose markers, below those of the legend, is
\* left without colour
C10_Witness ==
    /\ MeshReturned
    /\ Legends("Cell markers") # {}
    /\ \E m \in CellMarkersInUse \ ColoredCellMarkers :
          \E n \in ColoredCellMarkers : m < n

----------------------------------------------------------------------------
(* The legend of add_domain_to. *)

SegmentColorOf(m) == StyleOf(call.colors, PyStr("black"), m)

\* C11: a returned add_domain_to has put a "Segment markers" legend on the map
\* exactly when the segment markers of the data have more than one distinct
\* colour; its values are those markers in ascending order and its colours are
\* their colours in the same order, the default for a marker the mapping leaves
\* out; an id that no segment has is not among the values.
C11_SegmentLegend ==
    DomainReturned =>
        /\ Legends("Segment markers") # {}
               <=> Cardinality({SegmentColorOf(m) : m \in SegmentMarkersInUse}) > 1
        /\ Cardinality(Legends("Segment markers")) <= 1
        /\ \A k \in Legends("Segment markers") :
              /\ geo_map[k].index = SortedSeq(SegmentMarkersInUse)
              /\ geo_map[k].colors =
                     [j \in 1 .. Cardinality(SegmentMarkersInUse) |->
                         SegmentColorOf(SortedSeq(SegmentMarkersInUse)[j])]

\* a segment legend over markers with an id between them that no segment has
\* and the mapping has, one of the markers of the data being left out of the
\* mapping
C11_Witness ==
    /\ DomainReturned
    /\ Legends("Segment markers") # {}
    /\ \E m \in SegmentMarkersInUse : Missing(call.colors, m)
    /\ \E m \in 0 .. SetMax(SegmentMarkersInUse) :
          m \notin SegmentMarkersInUse /\ IsKey(call.colors, m)

----------------------------------------------------------------------------
(* Calls that fail. *)

\* C12: a step in which a call of add_mesh_to, add_domain_to,
\* add_scalar_field_to or add_vector_field_to ends in an exception leaves the
\* map with exactly the items it held before the call: the steps of a call
\* before its collection is added, and the step that fails, do not change the
\* map.
C12_NoPartialResult ==
    [][(raised' # NoError \/ pc' = "loop") => geo_map' = geo_map]_vars

\* add_mesh_to has failed on the assertion that the cells of a group are styled
\* alike, in a call that meets its preconditions, and the map is empty
C12_Witness ==
    /\ pc = "done"
    /\ MeshWellFormed
    /\ raised = "AssertionError"
    /\ StyleConflict
    /\ geo_map = <<>>

----------------------------------------------------------------------------
(* What the properties of the solution plotter speak of. *)

\* a call of add_scalar_field_to or of add_vector_field_to is over
ScalarCalled == pc = "done" /\ call.fn = "add_scalar_field_to"
VectorCalled == pc = "done" /\ call.fn = "add_vector_field_to"

\* the mode of the call, "contourf" when it gave none
ModeOf == ModeOrDefault(call.mode)

\* the levels of the call are a list of increasing values
IncreasingLevels ==
    /\ call.levels.kind = "list"
    /\ Len(call.levels.values) >= 1
    /\ \A k \in 1 .. Len(call.levels.values) - 1 :
          call.levels.values[k] < call.levels.values[k + 1]
NumLevels == Len(call.levels.values)

\* the answer of the contour routine for the level or the band lev (from 0)
ContourAnswer(lev) == call.contour[lev % Shape0(call.contour)]
FilledAnswer(lev) == call.filled[lev % Shape0(call.filled)]

\* the features of the collection the call has put on the map
FieldFeatures == geo_map[1].data.features

\* C13: a filled-band call of add_scalar_field_to with increasing levels
\* L0 .. Ln, for which the contour routine answers every band in one of its two
\* well-formed shapes, returns, and its collection holds exactly n polygon
\* groups, one for each pair of consecutive levels.
C13_GroupPerBand ==
    (/\ ScalarCalled
     /\ ModeOf = PyStr("contourf")
     /\ IncreasingLevels
     /\ \A lev \in 0 .. NumLevels - 2 : FilledAnswer(lev).form \in {"arrays", "lists"})
    => /\ raised = NoError
       /\ Len(FieldFeatures) = NumLevels - 1
       /\ \A k \in 1 .. NumLevels - 1 : FieldFeatures[k].geometry.type = "MultiPolygon"

----------------------------------------------------------------------------
(* The iso-lines. *)

\* the polylines of more than one point that the routine returned for the level
LongCurves(lev) ==
    {j \in 1 .. Len(ContourAnswer(lev).sizes) : ContourAnswer(lev).sizes[j] > 1}

\* the levels of the call that have such a polyline
GroupLevels == {lev \in 0 .. NumLevels - 1 : LongCurves(lev) # {}}

\* the colour of a level: its place between the first and the last level, in
\* the colour map of the call
LevelColorOf(lev) ==
    ToHex(GetCmap(call.cmap, NumLevels), call.levels.values[1],
          call.levels.values[NumLevels], call.levels.values[lev + 1])

\* C14: an iso-line call of add_scalar_field_to with increasing levels L0 .. Ln,
\* answered by the contour routine in one of its well-formed shapes, returns
\* with at most n + 1 line groups: one for each level that has a polyline of
\* more than one point, in the order of the levels, and none for the other
\* levels; a group holds the polylines of more than one point of its level and
\* no polyline of one point, and has weight 2 and the colour of its level.
C14_LineGroups ==
    (/\ ScalarCalled
     /\ ModeOf = PyStr("contour")
     /\ IncreasingLevels
     /\ \A lev \in 0 .. NumLevels - 1 : ContourAnswer(lev).form \in {"list", "tuple"})
    => /\ raised = NoError
       /\ Len(FieldFeatures) <= NumLevels
       /\ Len(FieldFeatures) = Cardinality(GroupLevels)
       /\ \A k \in 1 .. Len(FieldFeatures) :
             LET lev == SortedSeq(GroupLevels)[k]
                 group == FieldFeatures[k]
             IN /\ group.geometry.type = "MultiLineString"
                /\ group.properties = [color |-> LevelColorOf(lev), weight |-> PyInt(2)]
                /\ Len(group.geometry.coordinates) = Cardinality(LongCurves(lev))
                /\ \A j \in 1 .. Len(group.geometry.coordinates) :
                      Len(group.geometry.coordinates[j]) =
                          ContourAnswer(lev).sizes[SortedSeq(LongCurves(lev))[j]]

\* iso-lines of three levels have returned with one group: one level had
\* nothing but a polyline of one point, one level had no polyline, and one
\* level had a polyline of one point next to a longer one
C14_Witness ==
    /\ ScalarCalled
    /\ ModeOf = PyStr("contour")
    /\ raised = NoError
    /\ NumLevels = 3
    /\ Len(FieldFeatures) = 1
    /\ \E lev \in 0 .. 2 : ContourAnswer(lev).sizes = <<1>>
    /\ \E lev \in 0 .. 2 : ContourAnswer(lev).sizes = <<>>
    /\ \E lev \in 0 .. 2 : ContourAnswer(lev).sizes = <<1, 3>>

----------------------------------------------------------------------------
(* The legend of the fields. *)

\* the field whose values the levels are taken over: the scalar field, or the
\* norms of the vector field
FieldOf ==
    IF call.fn = "add_scalar_field_to" THEN call.scalar_field
    ELSE VectorFieldMagnitude(call.vector_field)

\* the caption the call asks for
CaptionOf ==
    IF call.name # PyNone THEN call.name.s
    ELSE IF call.fn = "add_scalar_field_to" THEN "Scalar field" ELSE "Vector field"

\* the legends on the map
FieldLegends == {k \in 1 .. Len(geo_map) : geo_map[k].item = "LinearColormap"}

\* C15: after a call of add_scalar_field_to or add_vector_field_to that has
\* returned, in any of the modes, the map holds two items: first the geometry
\* collection of the call, then one legend, whether or not the collection has
\* a feature. The legend is over the levels of the call, the values given or
\* the number asked for (10 when none is) from the least to the largest value
\* of the field, has one colour for each level and bears the name of the call.
C15_OneLegend ==
    ((ScalarCalled \/ VectorCalled) /\ raised = NoError)
    => /\ Len(geo_map) = 2
       /\ geo_map[1].item =
              IF ModeOf = PyStr("quiver") THEN "GeoJsonWithArrows" ELSE "GeoJson"
       /\ FieldLegends = {2}
       /\ geo_map[2].caption = CaptionOf
       /\ Len(geo_map[2].colors) = Len(geo_map[2].index)
       /\ call.levels.kind = "list" => geo_map[2].index = call.levels.values
       /\ call.levels.kind = "ndarray" => geo_map[2].index = ToList(call.levels.values)
       /\ call.levels.kind \in {"int", "None"} =>
              LET n == IF call.levels.kind = "int" THEN call.levels.n ELSE 10
              IN /\ Len(geo_map[2].index) = n
                 /\ geo_map[2].index[1] = SetMin(Values(FieldOf))
                 /\ n > 1 => geo_map[2].index[n] = SetMax(Values(FieldOf))

\* iso-lines of the norm of a vector field have returned without a single
\* group, and the map holds the empty collection and then one legend with the
\* caption "Vector field"
C15_Witness ==
    /\ VectorCalled
    /\ ModeOf = PyStr("contour")
    /\ raised = NoError
    /\ FieldFeatures = <<>>
    /\ FieldLegends = {2}
    /\ Len(geo_map[2].index) > 1
    /\ geo_map[2].caption = "Vector field"

----------------------------------------------------------------------------
(* The arrows. *)

\* C16: a quiver call of add_vector_field_to that gives no scale, with
\* increasing levels, returns, and the map holds what the same call with the
\* scale 1 puts on it: every arrow goes from its vertex to vertex + vector.
C16_NoScaling ==
    (/\ VectorCalled
     /\ ModeOf = PyStr("quiver")
     /\ call.scale = PyNone
     /\ IncreasingLevels)
    => /\ raised = NoError
       /\ geo_map = AddVectorFieldTo(<<>>, [call EXCEPT !.scale = PyInt(1)]).geo_map

\* the colour of the arrow of the vertex k: the place of the norm of its vector
\* between the first and the last level, in the colour map of the call
ArrowColorOf(k) ==
    ToHex(GetCmap(call.cmap, NumLevels), call.levels.values[1],
          call.levels.values[NumLevels], FieldOf[k])

\* the segment of the vertex k: from the vertex to vertex + scale * vector
ArrowOf(k) ==
    <<Point(k),
      Transform(call.transformer,
                <<call.vertices[k][1] + call.scale.i * call.vector_field[k][1],
                  call.vertices[k][2] + call.scale.i * call.vector_field[k][2]>>)>>

\* C17: a quiver call of add_vector_field_to with a scale and increasing levels
\* returns with a collection of line features, one for each distinct colour of
\* the arrows; the features hold as many segments as there are vertices; the
\* segment of a vertex goes from the vertex to vertex + scale * vector and lies
\* in the one feature of its colour; every segment of a feature is the segment
\* of a vertex of the feature's colour; every feature has weight 2.
C17_Quiver ==
    (/\ VectorCalled
     /\ ModeOf = PyStr("quiver")
     /\ call.scale # PyNone
     /\ IncreasingLevels)
    => /\ raised = NoError
       /\ geo_map[1].item = "GeoJsonWithArrows"
       /\ Len(FieldFeatures) = Cardinality({ArrowColorOf(k) : k \in 0 .. NumVertices - 1})
       /\ SumLen(FieldFeatures, 1) = NumVertices
       /\ \A f \in 1 .. Len(FieldFeatures) :
             /\ FieldFeatures[f].geometry.type = "MultiLineString"
             /\ FieldFeatures[f].properties.weight = PyInt(2)
             /\ \A j \in 1 .. Len(FieldFeatures[f].geometry.coordinates) :
                   /\ Len(FieldFeatures[f].geometry.coordinates[j]) = 2
                   /\ \E k \in 0 .. NumVertices - 1 :
                         /\ FieldFeatures[f].geometry.coordinates[j] = ArrowOf(k)
                         /\ FieldFeatures[f].properties.color = ArrowColorOf(k)
       /\ \A k \in 0 .. NumVertices - 1 :
             \E f \in 1 .. Len(FieldFeatures) :
                /\ FieldFeatures[f].properties.color = ArrowColorOf(k)
                /\ \E j \in 1 .. Len(FieldFeatures[f].geometry.coordinates) :
                      FieldFeatures[f].geometry.coordinates[j] = ArrowOf(k)
                /\ \A g \in 1 .. Len(FieldFeatures) :
                      FieldFeatures[g].properties.color = ArrowColorOf(k) => g = f

\* arrows of scale 2 have been drawn through a transformer: two vertices whose
\* vectors differ share a colour and a feature, a third has a feature of its own
C17_Witness ==
    /\ VectorCalled
    /\ ModeOf = PyStr("quiver")
    /\ raised = NoError
    /\ call.scale = PyInt(2)
    /\ call.transformer = "pyproj"
    /\ Len(FieldFeatures) = 2
    /\ \E f \in 1 .. 2 : Len(FieldFeatures[f].geometry.coordinates) = 2
    /\ \E k, l \in 0 .. NumVertices - 1 :
          /\ call.vector_field[k] # call.vector_field[l]
          /\ call.vector_field[k] # <<0, 0>>
          /\ ArrowColorOf(k) = ArrowColorOf(l)

----------------------------------------------------------------------------
(* Iso-lines and filled bands of a vector field. *)

\* add_scalar_field_to on an empty map, for the norms of the vector field of
\* the call, with the mode, the levels and the colour map of the call, and with
\* its name, "Vector field" when it has none
ScalarFieldOfNorm ==
    AddScalarFieldTo(<<>>,
        ScalarCall(call.transformer, VectorFieldMagnitude(call.vector_field), call.mode,
                   call.levels, call.cmap,
                   IF call.name = PyNone THEN PyStr("Vector field") ELSE call.name,
                   call.contour, call.filled))

\* C18: a call of add_vector_field_to in the mode contour or contourf (or
\* without a mode) ends as add_scalar_field_to does for the norms of the
\* vectors, with the same mode, levels and colour map and with the caption
\* "Vector field" when no name is given: it fails with the same exception, or
\* it leaves the same collection and the same legend on the map.
C18_ScalarOfNorm ==
    (VectorCalled /\ ModeOf \in {PyStr("contour"), PyStr("contourf")})
    => /\ raised = ScalarFieldOfNorm.raised
       /\ geo_map = ScalarFieldOfNorm.geo_map

\* filled bands of a vector field have been drawn, for a call that gave neither
\* a mode, nor levels, nor a colour map, nor a name
C18_Witness ==
    /\ VectorCalled
    /\ call.mode = PyNone
    /\ call.levels = LevelsNone
    /\ call.cmap = PyNone
    /\ call.name = PyNone
    /\ raised = NoError
    /\ Len(FieldFeatures) = DefaultLevels - 1
    /\ FieldFeatures[1].geometry.type = "MultiPolygon"
    /\ geo_map[2].caption = "Vector field"
    /\ geo_map[2].vmax = 36

----------------------------------------------------------------------------
(* The mode and the levels of a field. *)

\* the modes that the function of the call supports
SupportedModes ==
    IF call.fn = "add_scalar_field_to" THEN {PyStr("contourf"), PyStr("contour")}
    ELSE {PyStr("contourf"), PyStr("contour"), PyStr("quiver")}

\* how the function of the call ends for the arguments c, on an empty map
OutcomeOf(c) ==
    IF c.fn = "add_scalar_field_to" THEN AddScalarFieldTo(<<>>, c)
    ELSE AddVectorFieldTo(<<>>, c)

\* C19: a call of add_scalar_field_to or add_vector_field_to with a mode that
\* the function does not support (quiver for a scalar field among them), or
\* with levels that are neither an integer, a list nor an array, fails on an
\* assertion whatever its other arguments are (the assertions precede the
\* colours and the contours) and leaves the map empty; a call without a mode
\* ends as the same call with the mode "contourf", and a call without levels
\* ends as the same call with levels = 10.
C19_ModeAndLevels ==
    (ScalarCalled \/ VectorCalled)
    => /\ (call.mode # PyNone /\ call.mode \notin SupportedModes)
              => raised = "AssertionError" /\ geo_map = <<>>
       /\ call.levels.kind \notin {"None", "int", "list", "ndarray"}
              => raised = "AssertionError" /\ geo_map = <<>>
       /\ call.mode = PyNone
              => /\ raised = OutcomeOf([call EXCEPT !.mode = PyStr("contourf")]).raised
                 /\ geo_map = OutcomeOf([call EXCEPT !.mode = PyStr("contourf")]).geo_map
       /\ call.levels.kind = "None"
              => /\ raised = OutcomeOf([call EXCEPT !.levels = LevelsInt(10)]).raised
                 /\ geo_map = OutcomeOf([call EXCEPT !.levels = LevelsInt(10)]).geo_map

\* add_scalar_field_to has failed on the mode "quiver", in a call whose levels
\* decrease, which the colours of the levels would have failed on otherwise
C19_Witness ==
    /\ ScalarCalled
    /\ call.mode = PyStr("quiver")
    /\ call.levels.kind = "list"
    /\ Len(call.levels.values) = 2
    /\ call.levels.values[1] > call.levels.values[2]
    /\ raised = "AssertionError"
    /\ geo_map = <<>>

----------------------------------------------------------------------------
(* The assertions of _process_optional_argument_on_markers. *)

ProcessCalled == pc = "done" /\ call.fn = "_process_optional_argument_on_markers"

\* C20: a call of _process_optional_argument_on_markers fails on an assertion
\* and returns no table when one of its markers is negative, when its argument
\* is a mapping with a value that is not of the type of the default, and when
\* its argument is a single value that is not of the type of the default.
C20_ProcessFails ==
    ProcessCalled =>
        ((\/ \E m \in call.unique_markers : m < 0
          \/ /\ call.argument.kind = "dict"
             /\ \E k \in DOMAIN call.argument.items :
                   ~IsInstance(call.argument.items[k], call.default.t)
          \/ /\ call.argument.kind = "value"
             /\ ~IsInstance(call.argument.value, call.default.t))
         => raised = "AssertionError" /\ ret = <<>>)

\* the call has failed for a negative marker next to markers from 0 on, its
\* argument being a mapping of values of the default's type
C20_Witness ==
    /\ ProcessCalled
    /\ raised = "AssertionError"
    /\ ret = <<>>
    /\ -1 \in call.unique_markers
    /\ \E m \in call.unique_markers : m > 0
    /\ call.argument.kind = "dict"
    /\ DOMAIN call.argument.items # {}
    /\ \A k \in DOMAIN call.argument.items : call.argument.items[k].t = call.default.t

----------------------------------------------------------------------------
(* The interior of the cells. *)

\* C21: in a returned collection the polygon feature of a cell has fill = true,
\* fillColor = the colour of the cell's marker and fillOpacity = 1 when that
\* colour is not "none", and fill = false, fillColor = null and
\* fillOpacity = null when it is; this holds for the cells with three equal
\* face markers and for the others alike.
C21_Interior ==
    MeshReturned =>
        \A c \in 0 .. NumCells - 1 :
           /\ PolygonsHolding(c) # {}
           /\ \A k \in PolygonsHolding(c) :
                 IF CellColorOf(CellMarkerOf(c)) # PyStr("none")
                 THEN /\ MeshFeatures[k].properties.fill = PyBool(TRUE)
                      /\ MeshFeatures[k].properties.fillColor = CellColorOf(CellMarkerOf(c))
                      /\ MeshFeatures[k].properties.fillOpacity = PyInt(1)
                 ELSE /\ MeshFeatures[k].properties.fill = PyBool(FALSE)
                      /\ MeshFeatures[k].properties.fillColor = PyNone
                      /\ MeshFeatures[k].properties.fillOpacity = PyNone

\* a returned collection with two cells of one coloured cell marker, one with
\* three equal face markers and one without, in two polygon features that are
\* filled alike
C21_Witness ==
    /\ MeshReturned
    /\ \E c \in UniformCells, d \in MixedCells :
          /\ CellMarkerOf(c) = CellMarkerOf(d)
          /\ CellColorOf(CellMarkerOf(c)) # PyStr("none")
          /\ \E k \in PolygonsHolding(c), l \in PolygonsHolding(d) :
                /\ k # l
                /\ MeshFeatures[k].properties.fillColor = MeshFeatures[l].properties.fillColor
                /\ MeshFeatures[k].properties.fill = PyBool(TRUE)

----------------------------------------------------------------------------
(* Calls without markers. *)

\* the arguments of the mesh call with zeros for the marker arrays it left out
WithZeroMarkers ==
    [call EXCEPT
        !.cell_markers = IF @.given THEN @ ELSE Array([c \in 0 .. NumCells - 1 |-> 0]),
        !.face_markers = IF @.given THEN @
                         ELSE Array([c \in 0 .. NumCells - 1 |-> [f \in 0 .. 2 |-> 0]])]

\* the call gave no style
NoMeshStyles ==
    call.cell_colors = ArgNone /\ call.face_colors = ArgNone /\ call.face_weights = ArgNone

\* the one line through all the vertices of the domain, in the style of marker 0
WholeLine ==
    Feature("MultiLineString", <<[k \in 1 .. NumVertices |-> Point(k - 1)]>>,
            [color |-> SegmentColorOf(0), weight |-> StyleOf(call.weights, PyInt(1), 0)])

\* C22: a call of add_mesh_to that leaves out cell_markers, face_markers or
\* both ends as the same call with arrays of zeros of the shape of the cells in
\* their place: the same exception, or the same collection and legends. With
\* no markers and no styles the collection is one polygon feature of all the
\* cells with stroke = true, color "black", weight 1 and fill = false, with no
\* line feature and no legend. A returned call of add_domain_to without
\* segment_markers, as one with a zero for every segment, leaves one line
\* feature whose single part holds all the vertices in order, and no legend.
C22_ZeroMarkers ==
    /\ (pc = "done" /\ call.fn = "add_mesh_to")
           => /\ raised = AddMeshTo(<<>>, WithZeroMarkers).raised
              /\ geo_map = AddMeshTo(<<>>, WithZeroMarkers).geo_map
    /\ (/\ MeshReturned
        /\ ~call.cell_markers.given
        /\ ~call.face_markers.given
        /\ NoMeshStyles)
           => /\ Len(geo_map) = 1
              /\ Len(MeshFeatures) = 1
              /\ MeshFeatures[1].geometry.type = "MultiPolygon"
              /\ MeshFeatures[1].geometry.coordinates =
                     [k \in 1 .. NumCells |-> <<Ring(k - 1)>>]
              /\ MeshFeatures[1].properties =
                     [stroke |-> PyBool(TRUE), color |-> PyStr("black"), weight |-> PyInt(1),
                      fill |-> PyBool(FALSE), fillColor |-> PyNone, fillOpacity |-> PyNone]
    /\ (/\ DomainReturned
        /\ \/ ~call.segment_markers.given
           \/ \A i \in 0 .. NumVertices - 2 : call.segment_markers.array[i] = 0)
           => geo_map = <<GeoJson(FeatureCollection(<<WholeLine>>))>>

\* a returned call of add_mesh_to without marker arrays, on more than one cell,
\* with a mapping of colours that has the marker 0 and another marker: the
\* cells are all filled with the colour of 0
C22_Witness ==
    /\ MeshReturned
    /\ ~call.cell_markers.given
    /\ ~call.face_markers.given
    /\ NumCells > 1
    /\ call.cell_colors.kind = "dict"
    /\ {0, 1} \subseteq DOMAIN call.cell_colors.items
    /\ Len(MeshFeatures) = 1
    /\ MeshFeatures[1].properties.fillColor = call.cell_colors.items[0]

----------------------------------------------------------------------------
(* Meshes and domains of one marker. *)

\* the legends on the map, whatever their caption
AllLegends == {k \in 1 .. Len(geo_map) : geo_map[k].item = "LinearColormap"}

\* C23: a call of add_mesh_to that meets its preconditions, on a mesh whose
\* cells have one marker value and whose faces have one marker value, returns
\* and leaves its collection on the map and no legend, whatever the value of
\* the markers and whatever the colours and weights are; a returned call of
\* add_domain_to whose segments have one marker value leaves its collection and
\* no legend; a call that fails leaves no legend either.
C23_NoLegend ==
    /\ (/\ pc = "done"
        /\ MeshWellFormed
        /\ Cardinality(CellMarkersInUse) = 1
        /\ Cardinality(FaceMarkersInUse) = 1)
           => raised = NoError /\ Len(geo_map) = 1 /\ AllLegends = {}
    /\ (DomainReturned /\ Cardinality(SegmentMarkersInUse) = 1)
           => Len(geo_map) = 1 /\ AllLegends = {}
    /\ raised # NoError => AllLegends = {}

\* a returned call on a mesh whose cells all have a marker above 0 and whose
\* faces all have a marker above 0, with mappings that colour the markers from
\* 0 on in more than one colour: no legend
C23_Witness ==
    /\ MeshReturned
    /\ AllLegends = {}
    /\ NumCells > 1
    /\ \E m \in CellMarkersInUse : m > 0 /\ CellMarkersInUse = {m}
    /\ \E m \in FaceMarkersInUse : m > 0 /\ FaceMarkersInUse = {m}
    /\ call.cell_colors.kind = "dict"
    /\ Cardinality({call.cell_colors.items[m] : m \in DOMAIN call.cell_colors.items}) > 1
    /\ call.face_colors.kind = "dict"
    /\ Cardinality({call.face_colors.items[m] : m \in DOMAIN call.face_colors.items}) > 1

----------------------------------------------------------------------------
(* Calls in sequence: the assemblers keep no state. *)

\* the items that the step has added to the map
Added == SubSeq(geo_map', Len(geo_map) + 1, Len(geo_map'))
Kept == Len(geo_map') >= Len(geo_map) /\ SubSeq(geo_map', 1, Len(geo_map)) = geo_map

\* the line features of the domain of the call, from its arguments alone: one
\* per marker in the order of the first run of the marker
DomainFeaturesOfCall ==
    [j \in 1 .. Cardinality(SegmentMarkersInUse) |->
        LET m == CHOOSE n \in SegmentMarkersInUse : FeatureOfMarker(n) = j
        IN Feature("MultiLineString", RunsOfMarker(m),
               [color |-> SegmentColorOf(m), weight |-> StyleOf(call.weights, PyInt(1), m)])]
\* the legend of the domain of the call, from its arguments alone
DomainLegendOfCall ==
    IF Cardinality({SegmentColorOf(m) : m \in SegmentMarkersInUse}) > 1
    THEN <<[item |-> "LinearColormap", data |-> <<>>,
            colors |-> [j \in 1 .. Cardinality(SegmentMarkersInUse) |->
                           SegmentColorOf(SortedSeq(SegmentMarkersInUse)[j])],
            index |-> SortedSeq(SegmentMarkersInUse),
            vmin |-> SetMin(SegmentMarkersInUse), vmax |-> SetMax(SegmentMarkersInUse),
            caption |-> "Segment markers"]>>
    ELSE <<>>
DomainItemsOfCall == <<GeoJson(FeatureCollection(DomainFeaturesOfCall))>> \o DomainLegendOfCall

\* C24: add_mesh_to and add_domain_to are deterministic and keep no state
\* between calls: whatever calls came before on the plotter and whatever the
\* map holds, the call leaves the items of the map in place and the outcome and
\* the items it adds (the geometry collection and the legends) are those that
\* the same arguments give on an empty map, so that two calls with identical
\* inputs on two maps add equal collections and equal legends.
C24_NoState ==
    [][/\ (pc = "idle" /\ pc' = "done" /\ call'.fn = "add_mesh_to")
           => /\ Kept
              /\ raised' = AddMeshTo(<<>>, call').raised
              /\ Added = AddMeshTo(<<>>, call').geo_map
       /\ (pc = "loop" /\ pc' = "done" /\ call.fn = "add_domain_to" /\ raised' = NoError)
           => /\ Kept
              /\ Added = DomainItemsOfCall]_vars

\* a map on which one add_domain_to with a legend was made twice with an
\* add_mesh_to with two legends between them: the second call has added what
\* the first one added
C24_Witness ==
    /\ DomainReturned
    /\ Len(DomainItemsOfCall) = 2
    /\ Len(geo_map) = 7
    /\ SubSeq(geo_map, 1, 2) = DomainItemsOfCall
    /\ geo_map[3].item = "GeoJson" /\ geo_map[4].caption = "Cell markers"
    /\ geo_map[5].caption = "Face markers"
    /\ SubSeq(geo_map, 6, 7) = DomainItemsOfCall

----------------------------------------------------------------------------
(* The assertion on the properties of a polygon group. *)

\* C25: for every mesh with markers of the shape of the cells and not negative
\* and every well-typed colour and weight argument the conversion returns a
\* collection: two cells with one group key (cell marker, faces marked alike)
\* have one style, and the assertion on the properties of a group never fails.
C25_GroupsAgree ==
    (pc = "done" /\ MeshWellFormed) =>
        /\ raised = NoError
        /\ \A c, d \in 0 .. NumCells - 1 :
              KeyOf(c) = KeyOf(d) /\ ~Mixed(c) =>
                  /\ FaceColorOf(FaceMarkerOf(c, 0)) = FaceColorOf(FaceMarkerOf(d, 0))
                  /\ FaceWeightOf(FaceMarkerOf(c, 0)) = FaceWeightOf(FaceMarkerOf(d, 0))

\* a call that meets its preconditions fails only on that assertion, and only
\* when two cells of one group have differently styled faces
FailsOnlyOnStyleConflict ==
    (pc = "done" /\ MeshWellFormed /\ raised # NoError) =>
        raised = "AssertionError" /\ StyleConflict

----------------------------------------------------------------------------
(* The bands of the filled mode. *)

\* the bands of the call, and those for which the routine returned no point
Bands == 0 .. NumLevels - 2
EmptyBands == {lev \in Bands : FilledAnswer(lev).sizes = <<>>}
\* the bands with a ring that is kept once it is closed
DrawnBands == {lev \in Bands : \E j \in 1 .. Len(FilledAnswer(lev).sizes) :
                                   FilledAnswer(lev).sizes[j] + 1 > 2}

\* C26: a filled-band call in which the contour routine returns no points for
\* a band completes without error; that band has no polygon group and the
\* other bands have theirs.
C26_EmptyBand ==
    (/\ ScalarCalled
     /\ ModeOf = PyStr("contourf")
     /\ IncreasingLevels
     /\ \A lev \in Bands : FilledAnswer(lev).form \in {"arrays", "lists"}
     /\ EmptyBands # {})
    => /\ raised = NoError
       /\ Len(FieldFeatures) = Cardinality(DrawnBands)

----------------------------------------------------------------------------
(* The rings of a band. *)

\* the flat arrays and the pieces of the split of the band lev of the call
BandArrays(lev) == CreateFilledContour(FilledAnswer(lev), lev)
BandPieces(lev) == NpSplit(BandArrays(lev).points, SplitPositions(BandArrays(lev).codes))
\* the places of the ring starts (code 1) in the flat array
RingStarts(lev) == {p \in 1 .. Len(BandArrays(lev).codes) : BandArrays(lev).codes[p] = 1}

RECURSIVE Concatenated(_, _)
\* the pieces from the k-th on, one after another
Concatenated(pieces, k) ==
    IF k > Len(pieces) THEN <<>> ELSE pieces[k] \o Concatenated(pieces, k + 1)

\* the rings that the routine returned for the band and that have more than 2
\* points once closed, closed and transformed, each as a polygon
ClosedRingsOf(lev) ==
    LET sizes == FilledAnswer(lev).sizes
        IsKept(j) == sizes[j] + 1 > 2
        kept == SelectSeq([j \in 1 .. Len(sizes) |-> j], IsKept)
    IN [k \in 1 .. Len(kept) |->
           <<TransformCurve(call.transformer,
                 Append(CurvePoints(lev, kept[k], sizes[kept[k]]),
                        CurvePoints(lev, kept[k], sizes[kept[k]])[1]))>>]
\* the feature of a drawn band
FeatureOfBand(lev) == FieldFeatures[1 + Cardinality({l \in DrawnBands : l < lev})]

\* C27: in a filled-band call the flat point array of a band is cut at every
\* ring start (code 1) but the first, so the pieces are the rings of the band
\* and, concatenated in order, give the flat array; when every band has points
\* the call returns and the polygons of a band are its rings, each closed by
\* its first point, without those of at most 2 points once closed; every ring
\* in the collection has its first point as its last and at least 3 points.
C27_Rings ==
    (/\ ScalarCalled
     /\ ModeOf = PyStr("contourf")
     /\ IncreasingLevels
     /\ \A lev \in Bands : FilledAnswer(lev).form \in {"arrays", "lists"})
    => /\ \A lev \in Bands :
             /\ Concatenated(BandPieces(lev), 1) = BandArrays(lev).points
             /\ RingStarts(lev) # {} =>
                   /\ Len(BandPieces(lev)) = Cardinality(RingStarts(lev))
                   /\ \A j \in 1 .. Len(BandPieces(lev)) :
                         BandPieces(lev)[j]
                             = CurvePoints(lev, j, FilledAnswer(lev).sizes[j])
       /\ EmptyBands = {} =>
             /\ raised = NoError
             /\ Len(FieldFeatures) = Cardinality(DrawnBands)
             /\ \A lev \in DrawnBands :
                   FeatureOfBand(lev).geometry.coordinates = ClosedRingsOf(lev)
       /\ raised = NoError =>
             \A k \in 1 .. Len(FieldFeatures) :
                \A j \in 1 .. Len(FieldFeatures[k].geometry.coordinates) :
                   LET ring == FieldFeatures[k].geometry.coordinates[j][1]
                   IN Len(ring) >= 3 /\ ring[1] = ring[Len(ring)]

\* a returned call under a transformer with a band of two rings, both kept, a
\* band with a ring that is dropped and one that is kept, and two features
C27_Witness ==
    /\ ScalarCalled /\ ModeOf = PyStr("contourf") /\ IncreasingLevels
    /\ raised = NoError
    /\ call.transformer # "None"
    /\ Len(FieldFeatures) = 2
    /\ \E lev \in Bands : FilledAnswer(lev).sizes = <<3, 4>>
                            /\ Len(FeatureOfBand(lev).geometry.coordinates) = 2
    /\ \E lev \in Bands : FilledAnswer(lev).sizes = <<1, 3>>
                            /\ Len(FeatureOfBand(lev).geometry.coordinates) = 1

----------------------------------------------------------------------------
(* The order of the items of a map. *)

GeometryItems == {"GeoJson", "GeoJsonWithArrows"}

\* C28: in a sequence of calls on one map, in any order, no call removes or
\* reorders the items of earlier calls, and each call that returns adds one
\* geometry collection followed at once by its legends and nothing else: none,
\* one or two for a mesh (the cell legend before the face legend), none or one
\* for a domain, one for a field; so the items are in call order.
C28_CallOrder ==
    [][pc # "done" =>
          /\ Kept
          /\ (pc' = "done" /\ raised' = NoError) =>
                /\ Len(Added) >= 1
                /\ Added[1].item \in GeometryItems
                /\ \A k \in 2 .. Len(Added) : Added[k].item = "LinearColormap"
                /\ call'.fn = "add_mesh_to" =>
                      /\ Len(Added) <= 3
                      /\ Added[1].item = "GeoJson"
                      /\ \A k \in 2 .. Len(Added) :
                            Added[k].caption \in {"Cell markers", "Face markers"}
                      /\ Len(Added) = 3 => /\ Added[2].caption = "Cell markers"
                                           /\ Added[3].caption = "Face markers"
                /\ call'.fn = "add_domain_to" =>
                      /\ Len(Added) <= 2
                      /\ Added[1].item = "GeoJson"
                      /\ \A k \in 2 .. Len(Added) : Added[k].caption = "Segment markers"
                /\ call'.fn \in {"add_scalar_field_to", "add_vector_field_to"} =>
                      Len(Added) = 2]_vars

\* a map after a mesh with two legends, a vector field and a domain with a
\* legend, in this order
C28_Witness ==
    /\ DomainReturned
    /\ Len(geo_map) = 7
    /\ geo_map[1].item = "GeoJson"
    /\ geo_map[2].caption = "Cell markers"
    /\ geo_map[3].caption = "Face markers"
    /\ geo_map[4].item = "GeoJsonWithArrows"
    /\ geo_map[5].item = "LinearColormap"
    /\ geo_map[6].item = "GeoJson"
    /\ geo_map[7].caption = "Segment markers"

----------------------------------------------------------------------------
(* The script of an object with arrows. *)

\* an object has been rendered
Rendered == script # <<>>
\* the places of the arrowheads option in the script text of the last object
ArrowheadsAt == {k \in 1 .. Len(rendered.output) : rendered.output[k].text = "arrowheads:"}

\* C29: when objects with different arrow options are rendered one after
\* another, the script produced for each object holds that object's own
\* arrows_options.
C29_OwnOptions ==
    Rendered => \E k \in ArrowheadsAt : rendered.output[k] = Arrowheads(rendered.object)

\* the script of every object holds the options of the first object rendered
FirstOptionsStay ==
    Rendered => \A k \in ArrowheadsAt : rendered.output[k] = Arrowheads(script[1])

\* C30: however many objects have been rendered, each wrapping the script found
\* in one more PatchedScript, the text that the chain of wrappers produces
\* holds the "arrowheads:" option exactly once, right after "L.geoJson(null, {".
C30_Idempotent ==
    Rendered =>
        /\ raised = NoError
        /\ Cardinality(ArrowheadsAt) = 1
        /\ \A k \in ArrowheadsAt : k > 1 /\ rendered.output[k - 1] = Text("L.geoJson(null, {")
        /\ Len(rendered.output) = Len(OriginalScript) + 1

\* the script text produced by a chain of MaxRenders wrappers
C30_Witness ==
    /\ Len(script) = MaxRenders
    /\ Cardinality(ArrowheadsAt) = 1

====
